---------------------------- MODULE Spec2Model ----------------------------
(***************************************************************************)
(* A model of the budget/transaction engine of money-manager-api:          *)
(*   - BudgetService (create / update / delete / syncBudgets),             *)
(*   - AccountService.getCurrentBalance,                                   *)
(*   - TransactionService (create, calculateDueDateMonth,                  *)
(*     getAggregatedByYear),                                               *)
(*   - CategoryService.hide / unhide and SubcategoryService.hide / unhide. *)
(*                                                                         *)
(* Amounts are integers (the store keeps decimals with two places); dates  *)
(* are (year, month, day) triples of the server's local calendar.  In the  *)
(* budget and category services every `await` of a handler is a step of    *)
(* the request that runs it; the ledger services are called one at a time. *)
(***************************************************************************)
EXTENDS Integers, Sequences, FiniteSets, Bags, TLC

VARIABLES
    \* ---- budgets (BudgetService) ----
    budgets,        \* the Budget table: a set of rows
    nextBudgetId,   \* the table's autoincrement
    opsStarted,     \* number of budget requests started so far
    pc,             \* per request slot: where the handler is
    req,            \* per request slot: the request being served
    sync,           \* per request slot: the locals of syncBudgets
    fpBoundary,     \* outcome of Math.abs(a - b) > 0.01 at exactly one cent
    \* ---- categories (CategoryService / SubcategoryService) ----
    categories,     \* the Category table: a set of rows
    subcategories,  \* the Subcategory table: a set of rows
    nextCategoryId, \* the Category table's autoincrement
    nextSubcategoryId, \* the Subcategory table's autoincrement
    cpc,            \* per request slot: where the category handler is
    creq,           \* per request slot: the id the handler was called with
    \* ---- billing attribution (TransactionService.calculateDueDateMonth) ----
    dueCall,        \* the last call: its arguments and its result
    \* ---- accounts, snapshots and transactions ----
    accounts,       \* the Account table: a set of rows
    balances,       \* the AccountBalance table: a set of snapshot rows
    transactions,   \* the Transaction table: a bag of rows
    ledgerCall,     \* the query being answered: its arguments and its result
    nextTransactionId, \* the Transaction table's autoincrement
    nextBalanceId,  \* the AccountBalance table's autoincrement
    \* ---- groups (GroupMemberService) ----
    groupMembers,   \* the GroupMember table: a set of rows
    groupCall       \* the last call on the members of a group and its outcome

budgetVars == <<budgets, nextBudgetId, opsStarted, pc, req, sync, fpBoundary>>
categoryVars == <<categories, subcategories, nextCategoryId, nextSubcategoryId, cpc, creq>>
dueVars == <<dueCall>>
ledgerVars == <<accounts, balances, transactions, ledgerCall, nextTransactionId, nextBalanceId>>

groupVars == <<groupMembers, groupCall>>

vars == <<budgetVars, categoryVars, dueVars, ledgerVars, groupVars>>

-----------------------------------------------------------------------------
(* Bounds of the model *)

\* budget requests started in one behaviour
MaxOps == 3

\* the request slots (requests in flight at the same time)
Procs == {1, 2}

\* the users, years, subcategories, months and amounts requests draw from
BudgetUsers == {1}
BudgetYears == {2024}
BudgetSubcategories == {1, 2}
RacedSubcategories == {1}
BudgetMonths == {1}
BudgetAmounts == {1, 3}

\* rows the Category and the Subcategory tables may come to hold
MaxCategories == 2
MaxSubcategories == 2

\* rows the Transaction and the AccountBalance tables may come to hold
MaxTransactions == 3
MaxBalances == 2

\* owners of categories
CategoryUsers == {1}

-----------------------------------------------------------------------------
(* Helpers *)

Abs(x) == IF x < 0 THEN -x ELSE x

\* the null of an id, a group or a day column (ids and days are positive)
Null == 0

RECURSIVE SumAmounts(_)
\* Array.reduce((sum, budget) => sum + Number(budget.amount), 0)
SumAmounts(rows) ==
    IF rows = {} THEN 0
    ELSE LET r == CHOOSE x \in rows : TRUE
         IN  r.amount + SumAmounts(rows \ {r})

-----------------------------------------------------------------------------
(* BudgetService *)

NoPatch == [field |-> "none", value |-> 0]

NoReq ==
    [op |-> "none", userId |-> 0, id |-> 0, year |-> 0,
     subcategoryId |-> 0, type |-> "none", patch |-> NoPatch]
NoSync == [total |-> 0, count |-> 0, annualId |-> 0, annualAmount |-> 0,
           wrote |-> FALSE]

\* where = { userId, year, subcategoryId }, type: MONTHLY
MonthlyBudgets(bs, u, y, s) ==
    {b \in bs : b.userId = u /\ b.year = y /\ b.subcategoryId = s /\ b.type = "MONTHLY"}

\* (mutant) the type is left out of the where: any row of the key is found
AnnualBudgetsOfAnyType(bs, u, y, s) ==
    {b \in bs : b.userId = u /\ b.year = y /\ b.subcategoryId = s}

\* where = { userId, year, subcategoryId }, type: ANNUAL
AnnualBudgets(bs, u, y, s) ==
    {b \in bs : b.userId = u /\ b.year = y /\ b.subcategoryId = s /\ b.type = "ANNUAL"}

BudgetById(bs, id) == {b \in bs : b.id = id}

\* (mutant) the tolerance is two cents instead of one
ExceedsToleranceWide(annualAmount, total) == Abs(annualAmount - total) > 2

\* Math.abs(currentAnnualAmount - totalMonthlyAmount) > 0.01, on doubles: a
\* difference of two cents or more exceeds the tolerance, no difference does
\* not, and at exactly one cent the outcome depends on how the two operands
\* round (1.01 - 1 > 0.01, while 0.03 - 0.02 < 0.01).
ExceedsTolerance(annualAmount, total) ==
    LET d == Abs(annualAmount - total)
    IN  IF d > 1 THEN TRUE ELSE IF d < 1 THEN FALSE ELSE fpBoundary

\* the inputs of create: BudgetInput (name and budgetType play no part in sync)
CreateInputs(subs) ==
    [type : {"MONTHLY", "ANNUAL"}, month : {0} \cup BudgetMonths,
     year : BudgetYears, subcategoryId : subs, amount : BudgetAmounts]

\* the inputs of update: Partial<BudgetInput>, one field at a time
UpdatePatches(subs) ==
    [field : {"amount"}, value : BudgetAmounts]
        \cup [field : {"subcategoryId"}, value : subs]
        \cup [field : {"type"}, value : {"MONTHLY", "ANNUAL"}]

ApplyPatch(b, patch) ==
    CASE patch.field = "amount" -> [b EXCEPT !.amount = patch.value]
      [] patch.field = "subcategoryId" -> [b EXCEPT !.subcategoryId = patch.value]
      [] patch.field = "type" -> [b EXCEPT !.type = patch.value]

\* prisma.budget.create of BudgetService.create
CreatedRow(id, userId, data) ==
    [id |-> id, userId |-> userId, year |-> data.year,
     subcategoryId |-> data.subcategoryId, type |-> data.type,
     month |-> data.month, amount |-> data.amount]

\* The scheduler: TRUE lets requests interleave at their awaits; a sequential
\* run starts a request only when no other is in flight.
OthersIdle(p) == \A q \in Procs \ {p} : pc[q] = "idle"

\* the handler returns (or throws): its slot is free again
Finish(p) ==
    /\ pc' = [pc EXCEPT ![p] = "idle"]
    /\ req' = [req EXCEPT ![p] = NoReq]
    /\ sync' = [sync EXCEPT ![p] = NoSync]

Request(op, userId, id, year, subcategoryId, type, patch) ==
    [op |-> op, userId |-> userId, id |-> id, year |-> year,
     subcategoryId |-> subcategoryId, type |-> type, patch |-> patch]

\* a new request takes the lowest free slot (the slots are anonymous)
Begin(p) ==
    /\ pc[p] = "idle"
    /\ \A q \in Procs : q < p => pc[q] # "idle"
    /\ opsStarted < MaxOps
    /\ opsStarted' = opsStarted + 1

\* create, up to its first await: the two validations, then budget.create
BudgetCreate(p, userId, data) ==
    /\ Begin(p)
    /\ IF (data.type = "MONTHLY" /\ data.month = 0) \/ (data.type = "ANNUAL" /\ data.month # 0)
       THEN \* BadRequestException
            /\ Finish(p)
            /\ UNCHANGED <<budgets, nextBudgetId>>
       ELSE /\ budgets' = budgets \cup {CreatedRow(nextBudgetId, userId, data)}
            /\ nextBudgetId' = nextBudgetId + 1
            /\ req' = [req EXCEPT ![p] = Request("create", userId, nextBudgetId, data.year,
                                                 data.subcategoryId, data.type, NoPatch)]
            /\ pc' = [pc EXCEPT ![p] = "sync_monthly"]
            /\ UNCHANGED sync
    /\ UNCHANGED fpBoundary

\* update, first await: budget.findFirst({ id, userId })
BudgetUpdateFind(p, id, userId, patch) ==
    /\ Begin(p)
    /\ IF \E b \in budgets : b.id = id /\ b.userId = userId
       THEN /\ req' = [req EXCEPT ![p] = Request("update", userId, id, 0, 0, "none", patch)]
            /\ pc' = [pc EXCEPT ![p] = "update_write"]
            /\ UNCHANGED sync
       ELSE \* NotFoundException
            Finish(p)
    /\ UNCHANGED <<budgets, nextBudgetId, fpBoundary>>

\* update, second await: budget.update({ where: { id }, data }); the row may
\* have been deleted since the find, and then the update throws
BudgetUpdateWrite(p) ==
    /\ pc[p] = "update_write"
    /\ LET found == BudgetById(budgets, req[p].id)
       IN  IF found = {}
           THEN /\ Finish(p)
                /\ UNCHANGED budgets
           ELSE LET old == CHOOSE b \in found : TRUE
                    updated == ApplyPatch(old, req[p].patch)
                IN  /\ budgets' = (budgets \ {old}) \cup {updated}
                    /\ req' = [req EXCEPT ![p].year = updated.year,
                                          ![p].subcategoryId = updated.subcategoryId,
                                          ![p].type = updated.type]
                    /\ pc' = [pc EXCEPT ![p] = "sync_monthly"]
                    /\ UNCHANGED sync
    /\ UNCHANGED <<nextBudgetId, opsStarted, fpBoundary>>

\* delete, first await: budget.findFirst({ id, userId })
BudgetDeleteFind(p, id, userId) ==
    /\ Begin(p)
    /\ IF \E b \in budgets : b.id = id /\ b.userId = userId
       THEN LET b == CHOOSE x \in budgets : x.id = id /\ x.userId = userId
            IN  /\ req' = [req EXCEPT ![p] = Request("delete", userId, id, b.year,
                                                     b.subcategoryId, b.type, NoPatch)]
                /\ pc' = [pc EXCEPT ![p] = "delete_write"]
                /\ UNCHANGED sync
       ELSE \* NotFoundException
            Finish(p)
    /\ UNCHANGED <<budgets, nextBudgetId, fpBoundary>>

\* delete, second await: budget.delete({ where: { id } }); throws when the
\* row is gone already
BudgetDeleteWrite(p) ==
    /\ pc[p] = "delete_write"
    /\ IF BudgetById(budgets, req[p].id) = {}
       THEN /\ Finish(p)
            /\ UNCHANGED budgets
       ELSE /\ budgets' = budgets \ BudgetById(budgets, req[p].id)
            /\ pc' = [pc EXCEPT ![p] = "sync_monthly"]
            /\ UNCHANGED <<req, sync>>
    /\ UNCHANGED <<nextBudgetId, opsStarted, fpBoundary>>

\* syncBudgets, first await: findMany of the key's monthly budgets, and the
\* reduce over them
SyncReadMonthly(p) ==
    /\ pc[p] = "sync_monthly"
    /\ LET monthlyBudgets == MonthlyBudgets(budgets, req[p].userId, req[p].year,
                                            req[p].subcategoryId)
       IN  sync' = [sync EXCEPT ![p].total = SumAmounts(monthlyBudgets),
                                ![p].count = Cardinality(monthlyBudgets)]
    /\ pc' = [pc EXCEPT ![p] = "sync_annual"]
    /\ UNCHANGED <<budgets, nextBudgetId, opsStarted, req, fpBoundary>>

\* (mutant) the total is added to the annual amount instead of replacing it
SyncAmountAccumulates(total, annualAmount) == annualAmount + total

\* the amount syncBudgets writes to the annual budget
SyncAmount(total, annualAmount) == total

\* syncBudgets, second await: findFirst of the key's annual budget (any of them
\* when there are several: the query has no order), then the two conditions
SyncReadAnnual(p) ==
    /\ pc[p] = "sync_annual"
    /\ LET annuals == AnnualBudgets(budgets, req[p].userId, req[p].year,
                                    req[p].subcategoryId)
       IN  IF annuals = {}
           THEN Finish(p)
           ELSE \E annualBudget \in annuals :
                  LET locals == [sync[p] EXCEPT !.annualId = annualBudget.id,
                                                !.annualAmount = annualBudget.amount]
                  IN  IF sync[p].count > 0
                         /\ ExceedsTolerance(annualBudget.amount, sync[p].total)
                      THEN /\ pc' = [pc EXCEPT ![p] = "sync_write"]
                           /\ sync' = [sync EXCEPT ![p] = locals]
                           /\ UNCHANGED req
                      ELSE Finish(p)
    /\ UNCHANGED <<budgets, nextBudgetId, opsStarted, fpBoundary>>

\* syncBudgets, third await: budget.update({ where: { id: annualBudget.id },
\* data: { amount: totalMonthlyAmount } }); throws when the row is gone
SyncWrite(p) ==
    /\ pc[p] = "sync_write"
    /\ LET found == BudgetById(budgets, sync[p].annualId)
       IN  IF found = {}
           THEN /\ Finish(p)
                /\ UNCHANGED budgets
           ELSE LET old == CHOOSE b \in found : TRUE
                IN  /\ budgets' = (budgets \ {old}) \cup
                           {[old EXCEPT !.amount = SyncAmount(sync[p].total, old.amount)]}
                    /\ Finish(p)
    /\ UNCHANGED <<nextBudgetId, opsStarted, fpBoundary>>

-----------------------------------------------------------------------------
(* Initial states *)

CategoryIdle ==
    /\ categories = {}
    /\ subcategories = {}
    /\ nextCategoryId = 1
    /\ nextSubcategoryId = 1
    /\ cpc = [p \in Procs |-> "idle"]
    /\ creq = [p \in Procs |-> 0]

NoDueCall == [called |-> FALSE]

DueIdle == dueCall = NoDueCall

NoLedgerCall == [op |-> "none"]

NoGroupCall == [op |-> "none"]

\* the one group, its owner and the GroupMember row the owner got with the group
Groups == {7}
GroupOwner(groupId) == IF groupId \in Groups THEN 1 ELSE Null
OwnerMember == [id |-> 1, groupId |-> 7, userId |-> 1, roleId |-> 1]

GroupIdle ==
    /\ groupMembers = {OwnerMember}
    /\ groupCall = NoGroupCall

LedgerIdle ==
    /\ accounts = {}
    /\ balances = {}
    /\ transactions = EmptyBag
    /\ nextTransactionId = 1
    /\ nextBalanceId = 1
    /\ ledgerCall = NoLedgerCall

BudgetIdle ==
    /\ budgets = {}
    /\ nextBudgetId = 1
    /\ opsStarted = 0
    /\ pc = [p \in Procs |-> "idle"]
    /\ req = [p \in Procs |-> NoReq]
    /\ sync = [p \in Procs |-> NoSync]

\* budget requests served one after the other
InitBudget ==
    /\ BudgetIdle
    /\ fpBoundary \in BOOLEAN
    /\ CategoryIdle
    /\ DueIdle
    /\ GroupIdle
    /\ LedgerIdle

NextBudgetSeq ==
    \/ \E p \in Procs, u \in BudgetUsers, data \in CreateInputs(BudgetSubcategories) :
          OthersIdle(p) /\ BudgetCreate(p, u, data) /\ UNCHANGED <<categoryVars, dueVars, ledgerVars, groupVars>>
    \/ \E p \in Procs, id \in 1..MaxOps, u \in BudgetUsers,
          patch \in UpdatePatches(BudgetSubcategories) :
          OthersIdle(p) /\ BudgetUpdateFind(p, id, u, patch) /\ UNCHANGED <<categoryVars, dueVars, ledgerVars, groupVars>>
    \/ \E p \in Procs : BudgetUpdateWrite(p) /\ UNCHANGED <<categoryVars, dueVars, ledgerVars, groupVars>>
    \/ \E p \in Procs, id \in 1..MaxOps, u \in BudgetUsers :
          OthersIdle(p) /\ BudgetDeleteFind(p, id, u) /\ UNCHANGED <<categoryVars, dueVars, ledgerVars, groupVars>>
    \/ \E p \in Procs : BudgetDeleteWrite(p) /\ UNCHANGED <<categoryVars, dueVars, ledgerVars, groupVars>>
    \/ \E p \in Procs : SyncReadMonthly(p) /\ UNCHANGED <<categoryVars, dueVars, ledgerVars, groupVars>>
    \/ \E p \in Procs : SyncReadAnnual(p) /\ UNCHANGED <<categoryVars, dueVars, ledgerVars, groupVars>>
    \/ \E p \in Procs : SyncWrite(p) /\ UNCHANGED <<categoryVars, dueVars, ledgerVars, groupVars>>

SpecBudgetSeq == InitBudget /\ [][NextBudgetSeq]_vars

\* budget requests interleaved at their awaits, racing on the budgets of one
\* subcategory
NextBudgetConc ==
    \/ \E p \in Procs, u \in BudgetUsers, data \in CreateInputs(RacedSubcategories) :
          BudgetCreate(p, u, data) /\ UNCHANGED <<categoryVars, dueVars, ledgerVars, groupVars>>
    \/ \E p \in Procs, id \in 1..MaxOps, u \in BudgetUsers,
          patch \in UpdatePatches(RacedSubcategories) :
          BudgetUpdateFind(p, id, u, patch) /\ UNCHANGED <<categoryVars, dueVars, ledgerVars, groupVars>>
    \/ \E p \in Procs : BudgetUpdateWrite(p) /\ UNCHANGED <<categoryVars, dueVars, ledgerVars, groupVars>>
    \/ \E p \in Procs, id \in 1..MaxOps, u \in BudgetUsers :
          BudgetDeleteFind(p, id, u) /\ UNCHANGED <<categoryVars, dueVars, ledgerVars, groupVars>>
    \/ \E p \in Procs : BudgetDeleteWrite(p) /\ UNCHANGED <<categoryVars, dueVars, ledgerVars, groupVars>>
    \/ \E p \in Procs : SyncReadMonthly(p) /\ UNCHANGED <<categoryVars, dueVars, ledgerVars, groupVars>>
    \/ \E p \in Procs : SyncReadAnnual(p) /\ UNCHANGED <<categoryVars, dueVars, ledgerVars, groupVars>>
    \/ \E p \in Procs : SyncWrite(p) /\ UNCHANGED <<categoryVars, dueVars, ledgerVars, groupVars>>

SpecBudgetConc == InitBudget /\ [][NextBudgetConc]_vars

-----------------------------------------------------------------------------
(* TransactionService.calculateDueDateMonth *)

\* the years, closing days and due days the calls draw from
DueYears == {2023, 2024}
MonthsOfYear == 1..12
DaysOfMonth == 1..31

IsLeapYear(y) == (y % 4 = 0 /\ y % 100 # 0) \/ y % 400 = 0

\* the days a JavaScript Date can hold in a month
DaysInMonth(y, m) ==
    IF m = 2 THEN (IF IsLeapYear(y) THEN 29 ELSE 28)
    ELSE IF m \in {4, 6, 9, 11} THEN 30 ELSE 31

\* a date of the local calendar: getFullYear(), getMonth() + 1, getDate()
Dates(years) ==
    {dt \in [year : years, month : MonthsOfYear, day : DaysOfMonth] :
        dt.day <= DaysInMonth(dt.year, dt.month)}

\* (mutant) a purchase on the closing day itself goes to the next bill
calculateDueDateMonthClosingDayLate(transactionDate, closingDay, dueDay) ==
    LET txMonth == transactionDate.month - 1
        txYear == transactionDate.year
        txDay == transactionDate.day
        nextBill == txDay >= closingDay
        billingMonth == IF nextBill THEN (IF txMonth + 1 > 11 THEN 0 ELSE txMonth + 1)
                        ELSE txMonth
        billingYear == IF nextBill /\ txMonth + 1 > 11 THEN txYear + 1 ELSE txYear
        dueNext == dueDay < closingDay
        dueMonth == IF dueNext THEN (IF billingMonth + 1 > 11 THEN 0 ELSE billingMonth + 1)
                    ELSE billingMonth
        dueYear == IF dueNext /\ billingMonth + 1 > 11 THEN billingYear + 1 ELSE billingYear
    IN  [month |-> dueMonth + 1, year |-> dueYear]

calculateDueDateMonth(transactionDate, closingDay, dueDay) ==
    LET txMonth == transactionDate.month - 1     \* getMonth(): 0-11
        txYear == transactionDate.year
        txDay == transactionDate.day
        \* if (txDay > closingDay) { billingMonth += 1; if (billingMonth > 11) ... }
        nextBill == txDay > closingDay
        billingMonth == IF nextBill THEN (IF txMonth + 1 > 11 THEN 0 ELSE txMonth + 1)
                        ELSE txMonth
        billingYear == IF nextBill /\ txMonth + 1 > 11 THEN txYear + 1 ELSE txYear
        \* if (dueDay < closingDay) { dueMonth += 1; if (dueMonth > 11) ... }
        dueNext == dueDay < closingDay
        dueMonth == IF dueNext THEN (IF billingMonth + 1 > 11 THEN 0 ELSE billingMonth + 1)
                    ELSE billingMonth
        dueYear == IF dueNext /\ billingMonth + 1 > 11 THEN billingYear + 1 ELSE billingYear
    IN  [month |-> dueMonth + 1, year |-> dueYear]

\* one call: the arguments go in, the result comes out
CalculateDueDateMonth ==
    /\ ~dueCall.called
    /\ \E transactionDate \in Dates(DueYears), closingDay \in DaysOfMonth, dueDay \in DaysOfMonth :
          dueCall' = [called |-> TRUE, date |-> transactionDate, closingDay |-> closingDay,
                      dueDay |-> dueDay,
                      result |-> calculateDueDateMonth(transactionDate, closingDay, dueDay)]
    /\ UNCHANGED <<budgetVars, categoryVars, ledgerVars, groupVars>>

\* the caller has consumed the result
DueReturn ==
    /\ dueCall.called
    /\ dueCall' = NoDueCall
    /\ UNCHANGED <<budgetVars, categoryVars, ledgerVars, groupVars>>

InitDue ==
    /\ BudgetIdle
    /\ fpBoundary = FALSE
    /\ CategoryIdle
    /\ DueIdle
    /\ GroupIdle
    /\ LedgerIdle

NextDue ==
    \/ CalculateDueDateMonth
    \/ DueReturn

SpecDue == InitDue /\ [][NextDue]_vars

\* C3: calculateDueDateMonth returns the month and year reached from the
\* purchase's month by one step when the day is after the closing day and one
\* more step when the due day is before the closing day, the year advancing at
\* each December-to-January step and the month staying in 1..12; with closing
\* day 20 and due day 10 the 25th goes to M+2 and the 15th to M+1.
C3_DueDateMonth ==
    dueCall.called =>
        LET steps == (IF dueCall.date.day > dueCall.closingDay THEN 1 ELSE 0)
                       + (IF dueCall.dueDay < dueCall.closingDay THEN 1 ELSE 0)
            index == (dueCall.date.month - 1) + steps
        IN  /\ dueCall.result.month \in 1..12
            /\ dueCall.result.month = (index % 12) + 1
            /\ dueCall.result.year = dueCall.date.year + (index \div 12)
            /\ (dueCall.closingDay = 20 /\ dueCall.dueDay = 10 /\ dueCall.date.day = 25)
                  => dueCall.result.month = ((dueCall.date.month + 1) % 12) + 1
            /\ (dueCall.closingDay = 20 /\ dueCall.dueDay = 10 /\ dueCall.date.day = 15)
                  => dueCall.result.month = (dueCall.date.month % 12) + 1

\* C3's case: a purchase on 25 December with closing day 20 and due day 10 is
\* due in February of the next year
C3_Witness ==
    /\ dueCall.called
    /\ dueCall.date = [year |-> 2023, month |-> 12, day |-> 25]
    /\ dueCall.closingDay = 20 /\ dueCall.dueDay = 10
    /\ dueCall.result = [month |-> 2, year |-> 2024]

-----------------------------------------------------------------------------
(* CategoryService.hide / unhide, SubcategoryService.create / hide / unhide *)

CategoryById(cs, id, userId) == {c \in cs : c.id = id /\ c.userId = userId}

SubcategoryById(ss, id, userId) == {x \in ss : x.id = id /\ x.userId = userId}

SubcategoriesOf(ss, categoryId) == {x \in ss : x.categoryId = categoryId}

\* category.update({ where: { id }, data: { hidden } })
SetCategoryHidden(cs, id, hidden) ==
    {IF c.id = id THEN [c EXCEPT !.hidden = hidden] ELSE c : c \in cs}

\* (mutant) the category alone is written: no updateMany
CascadeHiddenSkipped(ss, categoryId, hidden) == ss

\* (mutant) the updateMany restores nothing: it writes only when hiding
CascadeHiddenOnHide(ss, categoryId, hidden) ==
    IF hidden
    THEN {IF x.categoryId = categoryId THEN [x EXCEPT !.hidden = TRUE] ELSE x : x \in ss}
    ELSE ss

\* subcategory.updateMany({ where: { categoryId: id }, data: { hidden } })
CascadeHidden(ss, categoryId, hidden) ==
    {IF x.categoryId = categoryId THEN [x EXCEPT !.hidden = hidden] ELSE x : x \in ss}

\* subcategory.update({ where: { id }, data: { hidden } })
SetSubcategoryHidden(ss, id, hidden) ==
    {IF x.id = id THEN [x EXCEPT !.hidden = hidden] ELSE x : x \in ss}

CategoryUnchangedRest == UNCHANGED <<budgetVars, dueVars, ledgerVars, groupVars>>

\* CategoryService.create: one insert, the hidden column takes its default
CategoryCreate(p, userId) ==
    /\ cpc[p] = "idle"
    /\ nextCategoryId <= MaxCategories
    /\ categories' = categories \cup
                       {[id |-> nextCategoryId, userId |-> userId, hidden |-> FALSE]}
    /\ nextCategoryId' = nextCategoryId + 1
    /\ UNCHANGED <<subcategories, nextSubcategoryId, cpc, creq>>
    /\ CategoryUnchangedRest

\* SubcategoryService.create: one insert under an existing category (the
\* foreign key), the hidden column takes its default whatever the parent's
SubcategoryCreate(p, userId, categoryId) ==
    /\ cpc[p] = "idle"
    /\ nextSubcategoryId <= MaxSubcategories
    /\ \E c \in categories : c.id = categoryId
    /\ subcategories' = subcategories \cup
                          {[id |-> nextSubcategoryId, categoryId |-> categoryId,
                            userId |-> userId, groupId |-> Null, hidden |-> FALSE]}
    /\ nextSubcategoryId' = nextSubcategoryId + 1
    /\ UNCHANGED <<categories, nextCategoryId, cpc, creq>>
    /\ CategoryUnchangedRest

\* hide / unhide, first await: findFirst({ where: { id, userId } }); the
\* request goes on to its transaction (NotFoundException ends it otherwise)
CategoryHideFind(p, id, userId, hidden) ==
    /\ cpc[p] = "idle"
    /\ CategoryById(categories, id, userId) # {}
    /\ cpc' = [cpc EXCEPT ![p] = IF hidden THEN "hide_tx" ELSE "unhide_tx"]
    /\ creq' = [creq EXCEPT ![p] = id]
    /\ UNCHANGED <<categories, subcategories, nextCategoryId, nextSubcategoryId>>
    /\ CategoryUnchangedRest

\* hide / unhide, second await: $transaction([category.update, subcategory.updateMany])
CategoryHideTransaction(p) ==
    /\ cpc[p] \in {"hide_tx", "unhide_tx"}
    /\ LET hidden == (cpc[p] = "hide_tx")
       IN  /\ categories' = SetCategoryHidden(categories, creq[p], hidden)
           /\ subcategories' = CascadeHidden(subcategories, creq[p], hidden)
           /\ cpc' = [cpc EXCEPT ![p] = IF hidden THEN "hide_read" ELSE "unhide_read"]
    /\ UNCHANGED <<nextCategoryId, nextSubcategoryId, creq>>
    /\ CategoryUnchangedRest

\* hide / unhide, third await: findUnique({ where: { id } }) and return
CategoryHideReturn(p) ==
    /\ cpc[p] \in {"hide_read", "unhide_read"}
    /\ cpc' = [cpc EXCEPT ![p] = "idle"]
    /\ creq' = [creq EXCEPT ![p] = 0]
    /\ UNCHANGED <<categories, subcategories, nextCategoryId, nextSubcategoryId>>
    /\ CategoryUnchangedRest

\* SubcategoryService.hide / unhide, first await: findFirst({ where: { id, userId } })
SubcategoryHideFind(p, id, userId, hidden) ==
    /\ cpc[p] = "idle"
    /\ SubcategoryById(subcategories, id, userId) # {}
    /\ cpc' = [cpc EXCEPT ![p] = IF hidden THEN "sub_hide" ELSE "sub_unhide"]
    /\ creq' = [creq EXCEPT ![p] = id]
    /\ UNCHANGED <<categories, subcategories, nextCategoryId, nextSubcategoryId>>
    /\ CategoryUnchangedRest

\* SubcategoryService.hide / unhide, second await: subcategory.update and return
SubcategoryHideWrite(p) ==
    /\ cpc[p] \in {"sub_hide", "sub_unhide"}
    /\ subcategories' = SetSubcategoryHidden(subcategories, creq[p], cpc[p] = "sub_hide")
    /\ cpc' = [cpc EXCEPT ![p] = "idle"]
    /\ creq' = [creq EXCEPT ![p] = 0]
    /\ UNCHANGED <<categories, nextCategoryId, nextSubcategoryId>>
    /\ CategoryUnchangedRest

InitCategory ==
    /\ BudgetIdle
    /\ fpBoundary = FALSE
    /\ CategoryIdle
    /\ DueIdle
    /\ GroupIdle
    /\ LedgerIdle

\* requests are served concurrently: any slot may take its next step
NextCategory ==
    \/ \E p \in Procs, userId \in CategoryUsers : CategoryCreate(p, userId)
    \/ \E p \in Procs, userId \in CategoryUsers, categoryId \in 1..MaxCategories :
          SubcategoryCreate(p, userId, categoryId)
    \/ \E p \in Procs, id \in 1..MaxCategories, userId \in CategoryUsers, hidden \in BOOLEAN :
          CategoryHideFind(p, id, userId, hidden)
    \/ \E p \in Procs : CategoryHideTransaction(p)
    \/ \E p \in Procs : CategoryHideReturn(p)
    \/ \E p \in Procs, id \in 1..MaxSubcategories, userId \in CategoryUsers, hidden \in BOOLEAN :
          SubcategoryHideFind(p, id, userId, hidden)
    \/ \E p \in Procs : SubcategoryHideWrite(p)

SpecCategory == InitCategory /\ [][NextCategory]_vars

\* C8: the step of CategoryService.hide that writes leaves the category hidden
\* and every subcategory the category had before the step hidden, and no step
\* at all turns a category hidden while leaving one of the subcategories it had
\* visible: a reader between any two steps sees the cascade whole or not at all.
C8_HideCascadesAtomically ==
    [][/\ \A p \in Procs :
            (cpc[p] = "hide_tx" /\ cpc'[p] = "hide_read") =>
               /\ \A c \in categories' : c.id = creq[p] => c.hidden
               /\ \A x \in SubcategoriesOf(subcategories, creq[p]) :
                     \E y \in subcategories' : y.id = x.id /\ y.hidden
       /\ \A c \in categories, d \in categories' :
            (c.id = d.id /\ ~c.hidden /\ d.hidden) =>
               \A x \in SubcategoriesOf(subcategories, c.id) :
                  \E y \in subcategories' : y.id = x.id /\ y.hidden
      ]_vars

\* C8's case: a hide has just committed on a category with two subcategories
\* while another request is between its own steps
C8_Witness ==
    \E p \in Procs, q \in Procs :
        /\ p # q
        /\ cpc[p] = "hide_read"
        /\ cpc[q] = "sub_unhide"
        /\ \E c \in categories :
              /\ c.id = creq[p] /\ c.hidden
              /\ Cardinality(SubcategoriesOf(subcategories, c.id)) = 2
              /\ \A x \in SubcategoriesOf(subcategories, c.id) : x.hidden

-----------------------------------------------------------------------------
(* Accounts, balance snapshots and transactions: the store *)

\* the users that call; the members of a group are its GroupMember rows
LedgerUsers == {1, 2}
Members(groupId) == {m.userId : m \in {x \in groupMembers : x.groupId = groupId}}

\* the GroupRole table: role 1 manages every account of the group, role 2 the
\* member's own accounts, role 3 none; role 4 is a role of another group
GroupRoles ==
    {[id |-> 1, groupId |-> 7, canManageGroupAccounts |-> TRUE, canManageOwnAccounts |-> TRUE],
     [id |-> 2, groupId |-> 7, canManageGroupAccounts |-> FALSE, canManageOwnAccounts |-> TRUE],
     [id |-> 3, groupId |-> 7, canManageGroupAccounts |-> FALSE, canManageOwnAccounts |-> FALSE],
     [id |-> 4, groupId |-> 8, canManageGroupAccounts |-> TRUE, canManageOwnAccounts |-> TRUE]}

\* the role of a member (groupMember.findFirst with include role): what it
\* allows on the group's accounts
MemberRole(groupId, userId) ==
    LET member == CHOOSE m \in groupMembers : m.groupId = groupId /\ m.userId = userId
    IN  CHOOSE role \in GroupRoles : role.id = member.roleId

\* a date of the local calendar, at midnight
Date(y, m, d) == [year |-> y, month |-> m, day |-> d]

\* new Date(0)
Epoch == Date(1970, 1, 1)

\* a > b on dates
DateAfter(a, b) ==
    \/ a.year > b.year
    \/ a.year = b.year /\ a.month > b.month
    \/ a.year = b.year /\ a.month = b.month /\ a.day > b.day

\* an Account row
Account(id, userId, groupId, type, subcategoryId, debitMethod, budgetMonthBasis, creditClosingDay, creditDueDay) ==
    [id |-> id, userId |-> userId, groupId |-> groupId, type |-> type,
     subcategoryId |-> subcategoryId, debitMethod |-> debitMethod,
     budgetMonthBasis |-> budgetMonthBasis,
     creditClosingDay |-> creditClosingDay, creditDueDay |-> creditDueDay]

\* a plain account: no linked subcategory, no credit settings
CashAccount(id, userId, groupId) ==
    Account(id, userId, groupId, "CASH", Null, "null", "null", Null, Null)

\* the categories and subcategories the ledger works with: subcategories 1 and
\* 2 are user 1's own, subcategory 3 belongs to the group
LedgerCategories == {[id |-> 1, userId |-> 1, hidden |-> FALSE]}
LedgerSubcategories ==
    {[id |-> 1, categoryId |-> 1, userId |-> 1, groupId |-> Null, hidden |-> FALSE],
     [id |-> 2, categoryId |-> 1, userId |-> 1, groupId |-> Null, hidden |-> FALSE],
     [id |-> 3, categoryId |-> 1, userId |-> 1, groupId |-> 7, hidden |-> FALSE]}

\* a TransactionInput
TransactionInput(type, accountId, toAccountId, subcategoryId, groupId, amount, date) ==
    [userId |-> Null, groupId |-> groupId, subcategoryId |-> subcategoryId,
     accountId |-> accountId, toAccountId |-> toAccountId, amount |-> amount,
     date |-> date, type |-> type]

\* TransactionService.create: the row that is written
TransactionRow(userId, data) ==
    [userId |-> IF data.userId # Null THEN data.userId ELSE userId,
     groupId |-> data.groupId,
     subcategoryId |-> IF data.type = "TRANSFER" THEN Null ELSE data.subcategoryId,
     accountId |-> data.accountId,
     toAccountId |-> IF data.toAccountId > 0 THEN data.toAccountId ELSE Null,
     amount |-> data.amount,
     date |-> data.date,
     type |-> data.type]

\* TransactionService.create: the checks that let the write happen
TransactionAccepted(userId, data) ==
    LET resolvedUserId == IF data.userId # Null THEN data.userId ELSE userId
    IN  /\ IF data.type = "TRANSFER"
           THEN data.toAccountId > 0
           ELSE data.subcategoryId # Null =>
                  \E subcategory \in subcategories :
                     /\ subcategory.id = data.subcategoryId
                     /\ IF data.groupId # Null
                        THEN subcategory.groupId = data.groupId
                        ELSE subcategory.userId = resolvedUserId
        \* the foreign keys of the row
        /\ \E a \in accounts : a.id = data.accountId
        /\ data.toAccountId > 0 => \E a \in accounts : a.id = data.toAccountId

LedgerUnchangedRest == UNCHANGED <<budgetVars, categoryVars, dueVars, groupVars>>

\* TransactionService.create(userId, data)
TransactionCreate(userId, data) ==
    /\ ledgerCall.op = "none"
    /\ BagCardinality(transactions) < MaxTransactions
    /\ TransactionAccepted(userId, data)
    /\ transactions' = transactions (+) SetToBag({TransactionRow(userId, data)})
    /\ UNCHANGED <<accounts, balances, ledgerCall, nextTransactionId, nextBalanceId>>
    /\ LedgerUnchangedRest

\* AccountService.findById: the account, if the caller owns it or is a member
\* of its group
FindAccountById(id, userId) ==
    {a \in accounts : a.id = id /\ (a.userId = userId \/ userId \in Members(a.groupId))}

\* (mutant) any member of the group may manage its accounts
CanManageAccountAsMember(userId, account) ==
    IF account.groupId = Null
    THEN account.userId = userId
    ELSE userId \in Members(account.groupId)

\* AccountService.canManageAccount
CanManageAccount(userId, account) ==
    IF account.groupId = Null
    THEN account.userId = userId
    ELSE /\ userId \in Members(account.groupId)
         /\ \/ MemberRole(account.groupId, userId).canManageGroupAccounts
            \/ (MemberRole(account.groupId, userId).canManageOwnAccounts
                  /\ account.userId = userId)

\* AccountService.addBalance(userId, data): a snapshot row is added (two
\* snapshots alike in account, amount and date read as one)
AddBalance(userId, data) ==
    /\ ledgerCall.op = "none"
    /\ Cardinality(balances) < MaxBalances
    /\ \E account \in FindAccountById(data.accountId, userId) :
          CanManageAccount(userId, account)
    /\ balances' = balances \cup {data}
    /\ UNCHANGED <<accounts, transactions, ledgerCall, nextTransactionId, nextBalanceId>>
    /\ LedgerUnchangedRest

\* the caller has consumed the result of a query
LedgerReturn ==
    /\ ledgerCall.op # "none"
    /\ ledgerCall' = NoLedgerCall
    /\ UNCHANGED <<accounts, balances, transactions, nextTransactionId, nextBalanceId>>
    /\ LedgerUnchangedRest

\* the rows of a bag that are in a set, with their copies
RowsIn(txs, rows) == [t \in rows |-> CopiesIn(t, txs)]

-----------------------------------------------------------------------------
(* AccountService.getCurrentBalance *)

NoBalance == [accountId |-> Null, amount |-> 0, date |-> Epoch]

\* (mutant) the orderBy is left out: any snapshot of the account is the baseline
LastBalancesUnordered(bs, accountId) ==
    LET mine == {b \in bs : b.accountId = accountId}
    IN  IF mine = {} THEN {NoBalance} ELSE mine

\* accountBalance.findFirst({ where: { accountId }, orderBy: { date: 'desc' } }):
\* a snapshot of the greatest date (any of them when several share it), or none
LastBalances(bs, accountId) ==
    LET mine == {b \in bs : b.accountId = accountId}
    IN  IF mine = {} THEN {NoBalance}
        ELSE {b \in mine : \A c \in mine : ~DateAfter(c.date, b.date)}

\* (mutant) { date: { gte: baselineDate } }
AfterBaselineInclusive(t, baselineDate) == ~DateAfter(baselineDate, t.date)

\* { date: { gt: baselineDate } }
AfterBaseline(t, baselineDate) == DateAfter(t.date, baselineDate)

\* (mutant) a personal account counts every row of its owner, group rows too
InAccountScopeOfOwner(t, account) ==
    IF account.groupId # Null
    THEN t.groupId = account.groupId
    ELSE t.groupId = Null \/ t.userId = account.userId

\* the ownership scope of the account: its group, or its owner's personal rows
InAccountScope(t, account) ==
    IF account.groupId # Null
    THEN t.groupId = account.groupId
    ELSE t.userId = account.userId /\ t.groupId = Null

\* transaction.findMany({ where: txWhere })
BalanceTransactions(txs, account, baselineDate) ==
    RowsIn(txs, {t \in BagToSet(txs) :
                    /\ AfterBaseline(t, baselineDate)
                    /\ (t.accountId = account.id \/ t.toAccountId = account.id)
                    /\ InAccountScope(t, account)})

\* (mutant) a transfer is taken from its origin and never reaches its destination
NetOfOriginOnly(t, accountId) ==
    IF t.type = "INCOME" THEN (IF t.accountId = accountId THEN t.amount ELSE 0)
    ELSE IF t.type = "EXPENSE" THEN (IF t.accountId = accountId THEN 0 - t.amount ELSE 0)
    ELSE IF t.type = "TRANSFER" THEN (IF t.accountId = accountId THEN 0 - t.amount ELSE 0)
    ELSE 0

\* one turn of the loop: what the transaction adds to net
NetOf(t, accountId) ==
    IF t.type = "INCOME" THEN (IF t.accountId = accountId THEN t.amount ELSE 0)
    ELSE IF t.type = "EXPENSE" THEN (IF t.accountId = accountId THEN 0 - t.amount ELSE 0)
    ELSE IF t.type = "TRANSFER"
         THEN (IF t.accountId = accountId THEN 0 - t.amount ELSE 0)
                + (IF t.toAccountId = accountId THEN t.amount ELSE 0)
    ELSE 0

\* for (const t of transactions) { ... net += / -= ... }
RECURSIVE Net(_, _)
Net(rows, accountId) ==
    IF BagToSet(rows) = {} THEN 0
    ELSE LET t == CHOOSE t \in BagToSet(rows) : TRUE
         IN  NetOf(t, accountId) + Net(rows (-) SetToBag({t}), accountId)

\* currentAmount = baselineAmount + net, for the snapshot the query found
CurrentAmount(txs, account, lastBalance) ==
    lastBalance.amount + Net(BalanceTransactions(txs, account, lastBalance.date), account.id)

\* the results getCurrentBalance(accountId, userId) can give
getCurrentBalance(accountId, userId) ==
    IF FindAccountById(accountId, userId) = {}
    THEN {[status |-> "NotFound", amount |-> 0, baseline |-> NoBalance]}
    ELSE {[status |-> "ok",
           amount |-> CurrentAmount(transactions, account, lastBalance),
           baseline |-> lastBalance] :
             account \in FindAccountById(accountId, userId),
             lastBalance \in LastBalances(balances, accountId)}

GetCurrentBalance ==
    /\ ledgerCall.op = "none"
    /\ \E accountId \in {a.id : a \in accounts}, userId \in LedgerUsers :
         \E result \in getCurrentBalance(accountId, userId) :
            ledgerCall' = [op |-> "getCurrentBalance", accountId |-> accountId,
                           userId |-> userId, result |-> result]
    /\ UNCHANGED <<accounts, balances, transactions, nextTransactionId, nextBalanceId>>
    /\ LedgerUnchangedRest

\* the accounts of the balance runs: account 1 is user 1's own, account 2 is
\* user 1's own or the group's
BalanceAccounts ==
    {{CashAccount(1, 1, Null), CashAccount(2, 1, groupId)} : groupId \in {Null} \cup Groups}

SnapshotDates == {Date(2024, 1, 10), Date(2024, 1, 15)}
SnapshotAmounts == {100, 200}
\* the snapshots of the balance runs: either amount on either date for account
\* 1, the first amount on either date for account 2
BalanceInputs ==
    [accountId : {1}, amount : SnapshotAmounts, date : SnapshotDates]
      \cup [accountId : {2}, amount : {100}, date : SnapshotDates]

BalanceTransactionDates == {Date(2024, 1, 15), Date(2024, 1, 20)}

\* the transactions of the balance runs: income, expense and transfers both
\* ways in user 1's personal scope, a transfer and an income in the group's
BalanceTransactionInputs ==
    {TransactionInput("INCOME", 1, Null, 1, Null, 50, date) : date \in BalanceTransactionDates}
    \cup {TransactionInput("EXPENSE", 1, Null, 1, Null, 30, date) : date \in BalanceTransactionDates}
    \cup {TransactionInput("TRANSFER", 1, 2, Null, Null, 40, date) : date \in BalanceTransactionDates}
    \cup {TransactionInput("TRANSFER", 2, 1, Null, Null, 40, date) : date \in BalanceTransactionDates}
    \cup {TransactionInput("TRANSFER", 1, 2, Null, 7, 40, date) : date \in BalanceTransactionDates}
    \cup {TransactionInput("INCOME", 1, Null, 3, 7, 50, Date(2024, 1, 20))}

\* the category tables of the ledger runs: the rows are there, no request runs
LedgerCategoryTables ==
    /\ categories = LedgerCategories
    /\ subcategories = LedgerSubcategories
    /\ nextCategoryId = 2
    /\ nextSubcategoryId = 4
    /\ cpc = [p \in Procs |-> "idle"]
    /\ creq = [p \in Procs |-> 0]

InitBalance ==
    /\ BudgetIdle
    /\ fpBoundary = FALSE
    /\ LedgerCategoryTables
    /\ DueIdle
    /\ GroupIdle
    /\ accounts \in BalanceAccounts
    /\ balances = {}
    /\ transactions = EmptyBag
    /\ nextTransactionId = 1
    /\ nextBalanceId = 1
    /\ ledgerCall = NoLedgerCall

NextBalance ==
    \/ \E data \in BalanceTransactionInputs : TransactionCreate(1, data)
    \/ \E userId \in LedgerUsers, data \in BalanceInputs : AddBalance(userId, data)
    \/ GetCurrentBalance
    \/ LedgerReturn

SpecBalance == InitBalance /\ [][NextBalance]_vars

\* the sum of the amounts of the rows of a bag that are in a set
RECURSIVE SumOfRows(_, _)
SumOfRows(rows, txs) ==
    IF rows = {} THEN 0
    ELSE LET t == CHOOSE t \in rows : TRUE
         IN  t.amount * CopiesIn(t, txs) + SumOfRows(rows \ {t}, txs)

\* the same-scope transactions of an account dated strictly after a date
CountedFor(account, date) ==
    {t \in BagToSet(transactions) : InAccountScope(t, account) /\ DateAfter(t.date, date)}

Created(t) == transactions' = transactions (+) SetToBag({t})

\* the statement without its conditions: every created transfer moves its
\* amount from the balance of its origin to the balance of its destination
C5_TransferSymmetryAlways ==
    [][\A t \in BagToSet(transactions') :
         (Created(t) /\ t.type = "TRANSFER") =>
            \A a \in accounts, b \in accounts :
               (a.id = t.accountId /\ b.id = t.toAccountId) =>
                  \A la \in LastBalances(balances, a.id), lb \in LastBalances(balances, b.id) :
                     /\ CurrentAmount(transactions', a, la) = CurrentAmount(transactions, a, la) - t.amount
                     /\ CurrentAmount(transactions', b, lb) = CurrentAmount(transactions, b, lb) + t.amount
      ]_vars

\* C5 (amended): creating a TRANSFER of amount x from A to B lowers the balance
\* of A by x and raises the balance of B by x, the sum of the two unchanged,
\* when the transfer is dated strictly after the latest snapshot of A and of B
\* and lies in the ownership scope of both accounts.
C5_TransferSymmetry ==
    [][\A t \in BagToSet(transactions') :
         (Created(t) /\ t.type = "TRANSFER") =>
            \A a \in accounts, b \in accounts :
               (a.id = t.accountId /\ b.id = t.toAccountId
                  /\ InAccountScope(t, a) /\ InAccountScope(t, b)) =>
                  \A la \in LastBalances(balances, a.id), lb \in LastBalances(balances, b.id) :
                     (DateAfter(t.date, la.date) /\ DateAfter(t.date, lb.date)) =>
                        /\ CurrentAmount(transactions', a, la) = CurrentAmount(transactions, a, la) - t.amount
                        /\ CurrentAmount(transactions', b, lb) = CurrentAmount(transactions, b, lb) + t.amount
                        /\ CurrentAmount(transactions', a, la) + CurrentAmount(transactions', b, lb)
                             = CurrentAmount(transactions, a, la) + CurrentAmount(transactions, b, lb)
      ]_vars

\* C5's case: both accounts have a snapshot, a transfer of 40 from account 1 to
\* account 2 is dated after both, and the balance of account 2 is read: 140
C5_Witness ==
    /\ ledgerCall.op = "getCurrentBalance"
    /\ ledgerCall.accountId = 2 /\ ledgerCall.userId = 1
    /\ ledgerCall.result.status = "ok"
    /\ ledgerCall.result.amount = 140
    /\ balances = {[accountId |-> 1, amount |-> 200, date |-> Date(2024, 1, 10)],
                   [accountId |-> 2, amount |-> 100, date |-> Date(2024, 1, 15)]}
    /\ transactions = SetToBag({TransactionRow(1, TransactionInput("TRANSFER", 1, 2, Null, Null, 40, Date(2024, 1, 20)))})
    /\ \A a \in accounts : a.groupId = Null

-----------------------------------------------------------------------------
(* TransactionService.getAggregatedByYear *)

\* where: groupId when the query names a group, else the caller's personal rows
InQueryScope(row, userId, groupId) ==
    IF groupId # Null
    THEN row.groupId = groupId
    ELSE row.userId = userId /\ row.groupId = Null

\* (mutant) the window opens one month later, on 1 December of the year before
InWindowFromDecember(date, year) ==
    /\ ~DateAfter(Date(year - 1, 12, 1), date)
    /\ DateAfter(Date(year + 1, 1, 1), date)

\* date: { gte: new Date(year - 1, 10, 1), lt: new Date(year + 1, 0, 1) }
InWindow(date, year) ==
    /\ ~DateAfter(Date(year - 1, 11, 1), date)
    /\ DateAfter(Date(year + 1, 1, 1), date)

\* (mutant) accountMap holds every account, whatever its scope
AccountMapAnyScope(userId, groupId) == accounts

\* accountMap: the accounts of the query's scope
AccountMap(userId, groupId) == {a \in accounts : InQueryScope(a, userId, groupId)}

\* accountMap.get(id)
AccountMapGet(accountMap, id) == {a \in accountMap : a.id = id}

\* (mutant) only the expenses of PREPAID accounts are passed over
SkippedExpensePrepaidOnly(t, accountMap) ==
    /\ t.type = "EXPENSE"
    /\ t.accountId # Null
    /\ \E src \in AccountMapGet(accountMap, t.accountId) : src.type = "PREPAID"

\* the expenses the loop passes over: from a PREPAID account, or from a CREDIT
\* account debited by INVOICE
SkippedExpense(t, accountMap) ==
    /\ t.type = "EXPENSE"
    /\ t.accountId # Null
    /\ \E src \in AccountMapGet(accountMap, t.accountId) :
          \/ src.type = "PREPAID"
          \/ src.type = "CREDIT" /\ src.debitMethod = "INVOICE"

\* the month and year a non-transfer is attributed to
TargetMonth(t, accountMap) ==
    LET byDueDate ==
          {account \in AccountMapGet(accountMap, t.accountId) :
              /\ account.type = "CREDIT"
              /\ account.debitMethod = "PER_PURCHASE"
              /\ account.budgetMonthBasis = "DUE_DATE"
              /\ account.creditClosingDay # Null
              /\ account.creditDueDay # Null}
    IN  IF t.type = "EXPENSE" /\ t.accountId # Null /\ byDueDate # {}
        THEN LET account == CHOOSE account \in byDueDate : TRUE
             IN  calculateDueDateMonth(t.date, account.creditClosingDay, account.creditDueDay)
        ELSE [month |-> t.date.month, year |-> t.date.year]

Entry(subcategoryId, month, year, type, amount) ==
    [subcategoryId |-> subcategoryId, month |-> month, year |-> year, type |-> type,
     amount |-> amount]

\* one turn of the loop: the additions to acc the transaction makes, in order
Contributions(t, accountMap) ==
    IF t.type # "TRANSFER"
    THEN IF SkippedExpense(t, accountMap) \/ t.subcategoryId = Null
         THEN <<>>
         ELSE LET target == TargetMonth(t, accountMap)
              IN  <<Entry(t.subcategoryId, target.month, target.year, t.type, t.amount)>>
    ELSE IF t.toAccountId = Null
         THEN <<>>
         ELSE LET dests == AccountMapGet(accountMap, t.toAccountId)
                  prepaid == {dest \in dests : dest.type = "PREPAID" /\ dest.subcategoryId # Null}
                  credit == {dest \in dests : dest.type = "CREDIT" /\ dest.subcategoryId # Null}
                  AsExpense(found) ==
                     IF found = {} THEN <<>>
                     ELSE <<Entry((CHOOSE dest \in found : TRUE).subcategoryId,
                                  t.date.month, t.date.year, "EXPENSE", t.amount)>>
              IN  AsExpense(prepaid) \o AsExpense(credit)

\* (mutant) `${subcategoryId}-${month}-${year}`: the type is left out of the key
BucketKeyWithoutType(b) == <<b.subcategoryId, b.month, b.year>>

\* `${subcategoryId}-${month}-${year}-${type}`
BucketKey(b) == <<b.subcategoryId, b.month, b.year, b.type>>

\* if (!acc[key]) acc[key] = {...}; acc[key].total += amount; acc[key].count += 1
AddToBucket(acc, e) ==
    IF \E b \in acc : BucketKey(b) = BucketKey(e)
    THEN {IF BucketKey(b) = BucketKey(e)
          THEN [b EXCEPT !.total = @ + e.amount, !.count = @ + 1]
          ELSE b : b \in acc}
    ELSE acc \cup {[subcategoryId |-> e.subcategoryId, month |-> e.month, year |-> e.year,
                    type |-> e.type, total |-> e.amount, count |-> 1]}

RECURSIVE AddAll(_, _)
AddAll(acc, entries) ==
    IF entries = <<>> THEN acc
    ELSE AddAll(AddToBucket(acc, Head(entries)), Tail(entries))

\* for (const t of transactions) { ... }
RECURSIVE AggregateRows(_, _, _)
AggregateRows(rows, accountMap, acc) ==
    IF BagToSet(rows) = {} THEN acc
    ELSE LET t == CHOOSE t \in BagToSet(rows) : TRUE
         IN  AggregateRows(rows (-) SetToBag({t}), accountMap,
                           AddAll(acc, Contributions(t, accountMap)))

\* getAggregatedByYear(userId, year, groupId) over a Transaction table
getAggregatedByYear(txs, userId, year, groupId) ==
    LET found == RowsIn(txs, {t \in BagToSet(txs) :
                                 InWindow(t.date, year) /\ InQueryScope(t, userId, groupId)})
        acc == AggregateRows(found, AccountMap(userId, groupId), {})
    IN  {b \in acc : b.year = year}

AggregatedYears == {2024}

GetAggregatedByYear ==
    /\ ledgerCall.op = "none"
    /\ \E userId \in {1}, year \in AggregatedYears, groupId \in {Null} \cup Groups :
          ledgerCall' = [op |-> "getAggregatedByYear", userId |-> userId, year |-> year,
                         groupId |-> groupId,
                         result |-> getAggregatedByYear(transactions, userId, year, groupId)]
    /\ UNCHANGED <<accounts, balances, transactions, nextTransactionId, nextBalanceId>>
    /\ LedgerUnchangedRest

\* the settings account 1 may have in the aggregation runs; account 2 is user
\* 1's wallet
AggregatedAccounts ==
    {{account1, CashAccount(2, 1, Null)} :
        account1 \in
          {CashAccount(1, 1, Null),
           Account(1, 1, Null, "PREPAID", 2, "null", "null", Null, Null),
           Account(1, 1, Null, "PREPAID", Null, "null", "null", Null, Null),
           Account(1, 1, 7, "PREPAID", 2, "null", "null", Null, Null),
           Account(1, 1, Null, "CREDIT", 2, "INVOICE", "null", 20, 10),
           Account(1, 1, Null, "CREDIT", 2, "PER_PURCHASE", "DUE_DATE", 20, 10),
           Account(1, 1, Null, "CREDIT", 2, "PER_PURCHASE", "PURCHASE_DATE", 20, 10),
           Account(1, 1, Null, "CREDIT", Null, "PER_PURCHASE", "DUE_DATE", 20, 10)}}

AggregatedDates == {Date(2023, 11, 25), Date(2024, 1, 15), Date(2024, 12, 25)}

\* the transactions of the aggregation runs
AggregatedTransactionInputs ==
    UNION {{TransactionInput("EXPENSE", 1, Null, 1, Null, 30, date),
            TransactionInput("EXPENSE", 2, Null, 1, Null, 30, date),
            TransactionInput("EXPENSE", 1, Null, Null, Null, 30, date),
            TransactionInput("INCOME", 1, Null, 1, Null, 50, date),
            TransactionInput("TRANSFER", 2, 1, 1, Null, 40, date),
            TransactionInput("TRANSFER", 1, 2, Null, Null, 40, date),
            TransactionInput("EXPENSE", 1, Null, 3, 7, 30, date),
            TransactionInput("TRANSFER", 2, 1, Null, 7, 40, date)} : date \in AggregatedDates}

InitAggregated ==
    /\ BudgetIdle
    /\ fpBoundary = FALSE
    /\ LedgerCategoryTables
    /\ DueIdle
    /\ GroupIdle
    /\ accounts \in AggregatedAccounts
    /\ balances = {}
    /\ transactions = EmptyBag
    /\ nextTransactionId = 1
    /\ nextBalanceId = 1
    /\ ledgerCall = NoLedgerCall

NextAggregated ==
    \/ \E data \in AggregatedTransactionInputs : TransactionCreate(1, data)
    \/ GetAggregatedByYear
    \/ LedgerReturn

SpecAggregated == InitAggregated /\ [][NextAggregated]_vars

\* the stored transactions of the scope of the query being answered
InScopeRows == 
    {t \in BagToSet(transactions) : InQueryScope(t, ledgerCall.userId, ledgerCall.groupId)}

\* the additions a stored transaction makes in the query being answered
EntriesOf(t) ==
    LET entries == Contributions(t, AccountMap(ledgerCall.userId, ledgerCall.groupId))
    IN  {entries[i] : i \in DOMAIN entries}

\* the stored transactions that add to a bucket of the query being answered
ContributingTo(b) == {t \in InScopeRows : \E e \in EntriesOf(t) : BucketKey(e) = BucketKey(b)}

\* C2: getAggregatedByYear(userId, Y) returns one bucket for each (subcategory,
\* attributed month, type) among the in-scope transactions attributed to year Y
\* and no other bucket, never two buckets of the same key, every bucket of year
\* Y, each with the sum of the amounts and the number of the transactions that
\* contribute to it; INCOME and EXPENSE never share a bucket.
C2_OneBucketPerKey ==
    ledgerCall.op = "getAggregatedByYear" =>
        /\ \A b1 \in ledgerCall.result, b2 \in ledgerCall.result :
              (b1.subcategoryId = b2.subcategoryId /\ b1.month = b2.month /\ b1.type = b2.type)
                 => b1 = b2
        /\ \A b \in ledgerCall.result :
              /\ b.year = ledgerCall.year
              /\ ContributingTo(b) # {}
              /\ b.total = SumOfRows(ContributingTo(b), transactions)
              /\ b.count = BagCardinality(RowsIn(transactions, ContributingTo(b)))
        /\ \A t \in InScopeRows : \A e \in EntriesOf(t) :
              e.year = ledgerCall.year =>
                 \E b \in ledgerCall.result :
                    /\ b.subcategoryId = e.subcategoryId /\ b.month = e.month
                    /\ b.year = e.year /\ b.type = e.type

\* C2's case: two expenses of subcategory 1 that land in January 2024 (one by
\* its due date) share a bucket of total 60 and count 2, next to an INCOME
\* bucket of the same subcategory and month
C2_Witness ==
    /\ ledgerCall.op = "getAggregatedByYear"
    /\ ledgerCall.groupId = Null
    /\ BagCardinality(transactions) = 3
    /\ [subcategoryId |-> 1, month |-> 1, year |-> 2024, type |-> "EXPENSE",
        total |-> 60, count |-> 2] \in ledgerCall.result
    /\ [subcategoryId |-> 1, month |-> 1, year |-> 2024, type |-> "INCOME",
        total |-> 50, count |-> 1] \in ledgerCall.result
    /\ \E t \in BagToSet(transactions) : t.type = "EXPENSE" /\ t.date = Date(2023, 11, 25)

\* the queries whose answer a transaction may change
Queries == [userId : {1}, year : AggregatedYears, groupId : {Null} \cup Groups]

Aggregated(txs, q) == getAggregatedByYear(txs, q.userId, q.year, q.groupId)

\* the query reads the transaction: it is in its scope and of its year
Covers(q, t) == InQueryScope(t, q.userId, q.groupId) /\ t.date.year = q.year

\* the answer with one more transaction counted in the EXPENSE bucket of a
\* subcategory at the transaction's own month
WithExpense(result, subcategoryId, t) ==
    LET key == [subcategoryId |-> subcategoryId, month |-> t.date.month,
                year |-> t.date.year, type |-> "EXPENSE"]
        old == {b \in result : b.subcategoryId = key.subcategoryId /\ b.month = key.month
                                  /\ b.year = key.year /\ b.type = key.type}
    IN  IF old = {}
        THEN result \cup {[subcategoryId |-> key.subcategoryId, month |-> key.month,
                           year |-> key.year, type |-> key.type,
                           total |-> t.amount, count |-> 1]}
        ELSE (result \ old) \cup
               {[b EXCEPT !.total = @ + t.amount, !.count = @ + 1] : b \in old}

ContributesToResult(t) ==
    getAggregatedByYear(transactions (-) SetToBag({t}), ledgerCall.userId, ledgerCall.year,
                        ledgerCall.groupId) # ledgerCall.result

\* C7: for no account do both an EXPENSE out of it and a TRANSFER into it
\* contribute to the totals getAggregatedByYear returns.
C7_NoDoubleCounting ==
    ledgerCall.op = "getAggregatedByYear" =>
        \A a \in accounts :
            ~ \E e \in BagToSet(transactions), t \in BagToSet(transactions) :
                 /\ e.type = "EXPENSE" /\ e.accountId = a.id
                 /\ t.type = "TRANSFER" /\ t.toAccountId = a.id
                 /\ ContributesToResult(e)
                 /\ ContributesToResult(t)

-----------------------------------------------------------------------------
(* Budget synchronisation: the properties *)

AllIdle == \A p \in Procs : pc[p] = "idle"

\* the handler of slot p returns with this step, out of syncBudgets
SyncReturns(p) == pc[p] \in {"sync_annual", "sync_write"} /\ pc'[p] = "idle"

AmountOf(bs, id) == (CHOOSE b \in bs : b.id = id).amount

\* the rows of one (userId, year, subcategoryId) key
KeyRows(bs, u, y, s) == {b \in bs : b.userId = u /\ b.year = y /\ b.subcategoryId = s}

\* C1: when BudgetService.create of a monthly budget returns, with no other
\* request in flight, an annual budget of the key whose amount differed from
\* the sum of the key's monthly amounts by more than 0.01 now holds that sum
\* (the annual budget, when the key has exactly one).
C1_CreateSyncsAnnual ==
    [][\A p \in Procs :
         (req[p].op = "create" /\ req[p].type = "MONTHLY" /\ SyncReturns(p)) =>
            LET before == AnnualBudgets(budgets, req[p].userId, req[p].year,
                                        req[p].subcategoryId)
                total == SumAmounts(MonthlyBudgets(budgets', req[p].userId, req[p].year,
                                                   req[p].subcategoryId))
            IN  before # {} =>
                  \E a \in before :
                     /\ BudgetById(budgets', a.id) # {}
                     /\ Abs(a.amount - total) > 1 => AmountOf(budgets', a.id) = total
                     /\ Abs(AmountOf(budgets', a.id) - total) <= 1
      ]_vars

\* C1's case: an annual budget created first, then two monthly budgets of its
\* key (amounts 1 and 3), and the annual amount is their sum
C1_Witness ==
    /\ AllIdle
    /\ opsStarted = 3
    /\ Cardinality(budgets) = 3
    /\ \E a, m1, m2 \in budgets :
         /\ a.id = 1 /\ m1.id = 2 /\ m2.id = 3
         /\ a.type = "ANNUAL" /\ m1.type = "MONTHLY" /\ m2.type = "MONTHLY"
         /\ a.subcategoryId = m1.subcategoryId /\ a.subcategoryId = m2.subcategoryId
         /\ m1.amount # m2.amount
         /\ a.amount = m1.amount + m2.amount

\* a sync of the key would write: it has an annual budget and monthly budgets
\* whose sum is off the annual amount by more than the tolerance
NeedsSync(bs, u, y, s) ==
    /\ MonthlyBudgets(bs, u, y, s) # {}
    /\ \A a \in AnnualBudgets(bs, u, y, s) :
          Abs(a.amount - SumAmounts(MonthlyBudgets(bs, u, y, s))) > 1
    /\ AnnualBudgets(bs, u, y, s) # {}

\* C9 (part 1): between the reads of a sync and its write, no other request
\* changes a budget of the sync's key
C9_NoForeignWriteDuringSync ==
    \A p \in Procs :
       (pc[p] \in {"sync_annual", "sync_write"} /\ pc'[p] = pc[p]) =>
          KeyRows(budgets', req[p].userId, req[p].year, req[p].subcategoryId)
             = KeyRows(budgets, req[p].userId, req[p].year, req[p].subcategoryId)

\* C9 (part 2): no state a reader can see holds a committed budget write whose
\* sync is still to be applied
C9_NoUnsyncedCommitVisible ==
    \A p \in Procs :
       pc[p] \in {"sync_monthly", "sync_annual", "sync_write"} =>
          ~NeedsSync(budgets, req[p].userId, req[p].year, req[p].subcategoryId)

\* C9: the reads of syncBudgets and its conditional write are one atomic
\* storage transaction with the budget write that triggers it: no foreign
\* write falls between the reads and the write, and no reader observes a
\* committed create/update/delete whose sync has not been applied.
C9_SyncIsAtomic ==
    [][C9_NoForeignWriteDuringSync]_vars /\ []C9_NoUnsyncedCommitVisible

\* C10: syncBudgets writes to the annual budget the monthly total it read at
\* its findMany, whatever other requests have committed since; hence two
\* interleaved creates can both return and leave the annual amount off the
\* sum of the monthly amounts by more than 0.01 (C10_LostUpdate is reached).
C10_SyncWritesTheTotalItRead ==
    [][\A p \in Procs :
         (pc[p] = "sync_write" /\ pc'[p] = "idle"
            /\ BudgetById(budgets, sync[p].annualId) # {}) =>
               /\ BudgetById(budgets', sync[p].annualId) # {}
               /\ AmountOf(budgets', sync[p].annualId) = sync[p].total
      ]_vars

\* C10's case: three creates (the annual budget, then two monthly budgets of
\* its key) have all returned, and the annual amount is off the monthly sum
C10_LostUpdate ==
    /\ AllIdle
    /\ opsStarted = 3
    /\ Cardinality(budgets) = 3
    /\ \E a, m1, m2 \in budgets :
         /\ a.id = 1 /\ m1.id = 2 /\ m2.id = 3
         /\ a.type = "ANNUAL" /\ m1.type = "MONTHLY" /\ m2.type = "MONTHLY"
         /\ a.subcategoryId = m1.subcategoryId /\ a.subcategoryId = m2.subcategoryId
         /\ Abs(a.amount - (m1.amount + m2.amount)) > 1

\* syncBudgets(userId, year, subcategoryId) run from its first read to its
\* return with no other request in between: the Budget tables it can leave
\* (one for each annual budget findFirst may return)
SyncOutcomes(bs, u, y, s) ==
    LET monthlyBudgets == MonthlyBudgets(bs, u, y, s)
        total == SumAmounts(monthlyBudgets)
        annuals == AnnualBudgets(bs, u, y, s)
    IN  IF annuals = {} \/ monthlyBudgets = {}
        THEN {bs}
        ELSE {IF ExceedsTolerance(annualBudget.amount, total)
              THEN (bs \ {annualBudget}) \cup
                     {[annualBudget EXCEPT !.amount = SyncAmount(total, annualBudget.amount)]}
              ELSE bs : annualBudget \in annuals}

\* C11: when a sync has run for a key, running the sync of that key again with
\* no budget write in between performs no write: every budget is as it was.
C11_SyncIdempotent ==
    [][\A p \in Procs :
         SyncReturns(p) =>
            SyncOutcomes(budgets', req[p].userId, req[p].year, req[p].subcategoryId)
               = {budgets'}
      ]_vars

\* the rows of a table that a step left as they were, or changed in amount only
\* while they were ANNUAL rows of the key
OnlyAnnualAmountOfKey(before, after, u, y, s) ==
    /\ {b.id : b \in before} = {b.id : b \in after}
    /\ Cardinality(after) = Cardinality(before)
    /\ \A b \in before :
          \/ b \in after
          \/ /\ b.type = "ANNUAL" /\ b.userId = u /\ b.year = y /\ b.subcategoryId = s
             /\ \E b2 \in after : b2 = [b EXCEPT !.amount = b2.amount]

\* the MONTHLY rows of a table
Monthlies(bs) == {b \in bs : b.type = "MONTHLY"}

C14_OneBudgetPerKey ==
    \A b1 \in budgets, b2 \in budgets :
        (b1.userId = b2.userId /\ b1.subcategoryId = b2.subcategoryId /\ b1.year = b2.year
           /\ b1.type = b2.type /\ (b1.type = "MONTHLY" => b1.month = b2.month))
          => b1.id = b2.id

-----------------------------------------------------------------------------
(* GroupMemberService: updateMemberRole, removeMember, leaveGroup *)

GroupIds == {7, 8}
GroupUsers == {1, 2, 3}
MemberIds == {1, 2, 3}
RoleIds == {1, 2, 3, 4}

\* groupMember.findFirst({ where: { id: memberId, groupId } })
MemberById(memberId, groupId) ==
    {m \in groupMembers : m.id = memberId /\ m.groupId = groupId}

\* groupMember.findFirst({ where: { groupId, userId } })
MemberOfUser(groupId, userId) ==
    {m \in groupMembers : m.groupId = groupId /\ m.userId = userId}

\* groupRole.findFirst({ where: { id: roleId, groupId } })
RoleOfGroup(roleId, groupId) ==
    {r \in GroupRoles : r.id = roleId /\ r.groupId = groupId}

\* (mutant) the owner is not looked at
OwnerProtectedNever(groupId, memberUserId) ==
    GroupOwner(groupId) = memberUserId /\ memberUserId = Null

\* group?.ownerId === member.userId
OwnerProtected(groupId, memberUserId) ==
    GroupOwner(groupId) = memberUserId

GroupCall(op, groupId, memberId, userId, roleId, hasPermission, status) ==
    [op |-> op, groupId |-> groupId, memberId |-> memberId, userId |-> userId,
     roleId |-> roleId, hasPermission |-> hasPermission, status |-> status]

GroupUnchangedRest == UNCHANGED <<budgetVars, categoryVars, dueVars, ledgerVars>>

\* updateMemberRole(groupId, memberId, userId, { roleId }); what
\* groupService.checkManageGroupPermission answers is left open
UpdateMemberRole(groupId, memberId, userId, roleId) ==
    /\ groupCall.op = "none"
    /\ \E hasPermission \in BOOLEAN :
          LET member == MemberById(memberId, groupId)
              status ==
                  IF ~hasPermission THEN "Forbidden"
                  ELSE IF member = {} THEN "NotFound"
                  ELSE IF RoleOfGroup(roleId, groupId) = {} THEN "BadRequest"
                  ELSE IF \E m \in member : OwnerProtected(groupId, m.userId) THEN "Forbidden"
                  ELSE "ok"
          IN  /\ groupMembers' =
                    IF status = "ok"
                    THEN {IF m.id = memberId THEN [m EXCEPT !.roleId = roleId] ELSE m :
                            m \in groupMembers}
                    ELSE groupMembers
              /\ groupCall' = GroupCall("updateMemberRole", groupId, memberId, userId, roleId,
                                        hasPermission, status)
    /\ GroupUnchangedRest

\* removeMember(groupId, memberId, userId)
RemoveMember(groupId, memberId, userId) ==
    /\ groupCall.op = "none"
    /\ \E hasPermission \in BOOLEAN :
          LET member == MemberById(memberId, groupId)
              status ==
                  IF ~hasPermission THEN "Forbidden"
                  ELSE IF member = {} THEN "NotFound"
                  ELSE IF \E m \in member : OwnerProtected(groupId, m.userId) THEN "Forbidden"
                  ELSE "ok"
          IN  /\ groupMembers' =
                    IF status = "ok"
                    THEN {m \in groupMembers : m.id # memberId}
                    ELSE groupMembers
              /\ groupCall' = GroupCall("removeMember", groupId, memberId, userId, Null,
                                        hasPermission, status)
    /\ GroupUnchangedRest

\* leaveGroup(groupId, userId)
LeaveGroup(groupId, userId) ==
    /\ groupCall.op = "none"
    /\ LET member == MemberOfUser(groupId, userId)
           status ==
               IF member = {} THEN "NotFound"
               ELSE IF OwnerProtected(groupId, userId) THEN "Forbidden"
               ELSE "ok"
       IN  /\ groupMembers' =
                 IF status = "ok"
                 THEN {m \in groupMembers : m \notin member}
                 ELSE groupMembers
           /\ groupCall' = GroupCall("leaveGroup", groupId, Null, userId, Null, TRUE, status)
    /\ GroupUnchangedRest

\* the caller has received the outcome
GroupReturn ==
    /\ groupCall.op # "none"
    /\ groupCall' = NoGroupCall
    /\ UNCHANGED groupMembers
    /\ GroupUnchangedRest

\* the group with its owner and two more members, each with a role of the group
InitGroup ==
    /\ BudgetIdle
    /\ fpBoundary = FALSE
    /\ CategoryIdle
    /\ DueIdle
    /\ LedgerIdle
    /\ \E r2 \in {1, 2, 3}, r3 \in {1, 2, 3} :
          groupMembers = {OwnerMember,
                          [id |-> 2, groupId |-> 7, userId |-> 2, roleId |-> r2],
                          [id |-> 3, groupId |-> 7, userId |-> 3, roleId |-> r3]}
    /\ groupCall = NoGroupCall

NextGroup ==
    \/ \E groupId \in GroupIds, memberId \in MemberIds, userId \in GroupUsers, roleId \in RoleIds :
          UpdateMemberRole(groupId, memberId, userId, roleId)
    \/ \E groupId \in GroupIds, memberId \in MemberIds, userId \in GroupUsers :
          RemoveMember(groupId, memberId, userId)
    \/ \E groupId \in GroupIds, userId \in GroupUsers : LeaveGroup(groupId, userId)
    \/ GroupReturn

SpecGroup == InitGroup /\ [][NextGroup]_vars

\* a call that is aimed at the owner's GroupMember row
TargetsOwner(c) ==
    /\ c.groupId = OwnerMember.groupId
    /\ \/ c.op \in {"updateMemberRole", "removeMember"} /\ c.memberId = OwnerMember.id
       \/ c.op = "leaveGroup" /\ c.userId = OwnerMember.userId

\* C13 as stated: the owner's GroupMember row stays, with its roleId, whatever
\* updateMemberRole / removeMember / leaveGroup calls are made, and every such
\* call aimed at the owner's membership fails with Forbidden and writes nothing.
C13_OwnerKeptForbidden ==
    /\ [](OwnerMember \in groupMembers)
    /\ [][(groupCall.op = "none" /\ TargetsOwner(groupCall')) =>
             (groupCall'.status = "Forbidden" /\ groupMembers' = groupMembers)]_vars

\* C13 (amended): the owner's GroupMember row stays, with its roleId, and every
\* call aimed at the owner's membership fails and writes nothing: with
\* Forbidden, except that updateMemberRole by a permitted caller with a roleId
\* that is not a role of the group fails with BadRequest.
C13_OwnerKept ==
    /\ [](OwnerMember \in groupMembers)
    /\ [][(groupCall.op = "none" /\ TargetsOwner(groupCall')) =>
             /\ groupMembers' = groupMembers
             /\ IF groupCall'.op = "updateMemberRole" /\ groupCall'.hasPermission
                     /\ RoleOfGroup(groupCall'.roleId, groupCall'.groupId) = {}
                THEN groupCall'.status = "BadRequest"
                ELSE groupCall'.status = "Forbidden"]_vars

\* C13's case: after another member was removed, a caller that may manage the
\* group tries to remove the owner and is refused
C13_Witness ==
    /\ groupCall.op = "removeMember"
    /\ TargetsOwner(groupCall)
    /\ groupCall.hasPermission
    /\ groupCall.status = "Forbidden"
    /\ Cardinality(groupMembers) = 2
    /\ OwnerMember \in groupMembers

-----------------------------------------------------------------------------
(* TransactionService: create, findById, update, delete, on rows with ids *)

\* ids the Transaction table gives out
MaxTransactionIds == 2

TransactionCallers == {1, 2}

\* the date the requests of this part carry
RequestDate == Date(2024, 1, 15)

\* the bodies sent to create: each type, with and without a destination
\* account, with and without a subcategory
CrudTransactionInputs ==
    {TransactionInput(type, 1, toAccountId, subcategoryId, Null, 30, RequestDate) :
        type \in {"EXPENSE", "INCOME", "TRANSFER"}, toAccountId \in {0, 2},
        subcategoryId \in {Null, 1}}

\* the bodies sent to update (Partial<TransactionInput>): one field each
TransactionPatches ==
    {[field |-> "type", value |-> type] : type \in {"EXPENSE", "INCOME", "TRANSFER"}}
      \cup {[field |-> "toAccountId", value |-> toAccountId] : toAccountId \in {0, 2}}
      \cup {[field |-> "subcategoryId", value |-> subcategoryId] : subcategoryId \in {Null, 1}}

\* the rows of the Transaction table
TransactionRows == BagToSet(transactions)

\* transaction.findFirst({ where: { id } })
TransactionById(id) == {t \in TransactionRows : t.id = id}

\* transaction.findFirst({ where: { id, userId } })
TransactionByIdOfUser(id, userId) == {t \in TransactionRows : t.id = id /\ t.userId = userId}

\* updateData = { ...data } with toAccountId coerced, written over the row
ApplyTransactionPatch(t, patch) ==
    CASE patch.field = "type" -> [t EXCEPT !.type = patch.value]
      [] patch.field = "toAccountId" ->
            [t EXCEPT !.toAccountId = IF patch.value > 0 THEN patch.value ELSE Null]
      [] patch.field = "subcategoryId" -> [t EXCEPT !.subcategoryId = patch.value]

\* TransactionService.create: the status the request ends with (400 from the
\* checks of the handler, 500 from a foreign key the storage refuses)
CreateStatus(userId, data) ==
    IF data.type = "TRANSFER" /\ ~(data.toAccountId > 0) THEN 400
    ELSE IF ~TransactionAccepted(userId, data)
         THEN IF data.type # "TRANSFER" /\ data.subcategoryId # Null
                   /\ \E a \in accounts : a.id = data.accountId
              THEN 400 ELSE 500
         ELSE 201

CrudUnchanged == UNCHANGED <<accounts, balances, nextBalanceId>> /\ LedgerUnchangedRest

\* TransactionService.create(userId, data), with the id of the row and the
\* status of the response
TransactionCreateRequest(userId, data) ==
    /\ ledgerCall.op = "none"
    /\ nextTransactionId <= MaxTransactionIds
    /\ LET status == CreateStatus(userId, data)
       IN  /\ IF status = 201
              THEN /\ transactions' = transactions (+)
                         SetToBag({[id |-> nextTransactionId] @@ TransactionRow(userId, data)})
                   /\ nextTransactionId' = nextTransactionId + 1
              ELSE UNCHANGED <<transactions, nextTransactionId>>
           /\ ledgerCall' = [op |-> "create", id |-> Null, userId |-> userId,
                             type |-> data.type, toAccountId |-> data.toAccountId,
                             status |-> status]
    /\ CrudUnchanged

\* TransactionService.findById(id), called for the signed-in user userId
TransactionFindById(id, userId) ==
    /\ ledgerCall.op = "none"
    /\ ledgerCall' = [op |-> "findById", id |-> id, userId |-> userId,
                      status |-> IF TransactionById(id) = {} THEN 404 ELSE 200]
    /\ UNCHANGED <<transactions, nextTransactionId>>
    /\ CrudUnchanged

\* TransactionService.update(id, data), called for the signed-in user userId
TransactionUpdate(id, userId, patch) ==
    /\ ledgerCall.op = "none"
    /\ LET found == TransactionById(id)
       IN  /\ transactions' =
                 IF found = {} THEN transactions
                 ELSE SetToBag({IF t.id = id THEN ApplyTransactionPatch(t, patch) ELSE t :
                                  t \in TransactionRows})
           /\ ledgerCall' = [op |-> "update", id |-> id, userId |-> userId,
                             status |-> IF found = {} THEN 404 ELSE 200]
    /\ UNCHANGED nextTransactionId
    /\ CrudUnchanged

\* TransactionService.delete(id, userId)
TransactionDelete(id, userId) ==
    /\ ledgerCall.op = "none"
    /\ LET found == TransactionByIdOfUser(id, userId)
       IN  /\ transactions' =
                 IF found = {} THEN transactions
                 ELSE SetToBag({t \in TransactionRows : t.id # id})
           /\ ledgerCall' = [op |-> "delete", id |-> id, userId |-> userId,
                             status |-> IF found = {} THEN 404 ELSE 204]
    /\ UNCHANGED nextTransactionId
    /\ CrudUnchanged

\* the response has been sent
CrudReturn ==
    /\ ledgerCall.op # "none"
    /\ ledgerCall' = NoLedgerCall
    /\ UNCHANGED <<transactions, nextTransactionId>>
    /\ CrudUnchanged

\* users 1 and 2 with a personal account each; user 2 belongs to no group
InitTransaction ==
    /\ BudgetIdle
    /\ fpBoundary = FALSE
    /\ LedgerCategoryTables
    /\ DueIdle
    /\ GroupIdle
    /\ accounts = {CashAccount(1, 1, Null), CashAccount(2, 2, Null)}
    /\ balances = {}
    /\ transactions = EmptyBag
    /\ nextTransactionId = 1
    /\ nextBalanceId = 1
    /\ ledgerCall = NoLedgerCall

NextTransaction ==
    \/ \E userId \in TransactionCallers, data \in CrudTransactionInputs :
          TransactionCreateRequest(userId, data)
    \/ \E id \in 1..MaxTransactionIds, userId \in TransactionCallers :
          TransactionFindById(id, userId)
    \/ \E id \in 1..MaxTransactionIds, userId \in TransactionCallers, patch \in TransactionPatches :
          TransactionUpdate(id, userId, patch)
    \/ \E id \in 1..MaxTransactionIds, userId \in TransactionCallers :
          TransactionDelete(id, userId)
    \/ CrudReturn

SpecTransaction == InitTransaction /\ [][NextTransaction]_vars

\* C15: every stored TRANSFER has no subcategoryId and has a toAccountId, every
\* stored EXPENSE / INCOME has no toAccountId, and a create of a TRANSFER
\* without a positive toAccountId is rejected with 400.
C15_TypeShape ==
    /\ \A t \in TransactionRows :
          IF t.type = "TRANSFER"
          THEN t.subcategoryId = Null /\ t.toAccountId # Null
          ELSE t.toAccountId = Null
    /\ (ledgerCall.op = "create" /\ ledgerCall.type = "TRANSFER"
          /\ ~(ledgerCall.toAccountId > 0)) => ledgerCall.status = 400

\* a transaction of another user that no group makes visible to the caller
ForeignTo(userId, t) ==
    /\ t.userId # userId
    /\ t.groupId = Null \/ userId \notin Members(t.groupId)

\* C20: findById, update and delete called by a user for a transaction of
\* another user (in no group of the caller) end with NotFound and leave the
\* transaction as it was.
C20_ForeignNotFound ==
    [][\A t \in TransactionRows :
         (ledgerCall.op = "none" /\ ledgerCall'.op \in {"findById", "update", "delete"}
            /\ ledgerCall'.id = t.id /\ ForeignTo(ledgerCall'.userId, t)) =>
               (ledgerCall'.status = 404 /\ t \in BagToSet(transactions'))
      ]_vars

-----------------------------------------------------------------------------
(* AccountService: update, delete, addBalance, updateBalance, deleteBalance *)

AccountCallers == {1, 2, 3}

\* the bodies sent to update (Partial<AccountInput>): one field each
AccountPatches ==
    {[field |-> "type", value |-> type] : type \in {"CASH", "PREPAID"}}
      \cup {[field |-> "groupId", value |-> groupId] : groupId \in {Null, 7, 8}}

\* the bodies sent to addBalance
SnapshotInputs == {[accountId |-> 1, amount |-> 100, date |-> Date(2024, 1, 10)]}

\* the bodies sent to updateBalance (Partial<AccountBalanceInput>): one field each
SnapshotPatches ==
    {[field |-> "amount", value |-> 200], [field |-> "date", value |-> Date(2024, 1, 15)]}

\* accountBalance.findUnique({ where: { id }, include: { account: true } })
BalanceById(id) == {b \in balances : b.id = id}

\* account.findUnique({ where: { id } })
AccountById(id) == {a \in accounts : a.id = id}

\* the outcome of the checks update and delete start with
AccountAccess(id, userId) ==
    LET found == FindAccountById(id, userId)
    IN  IF found = {} THEN 404
        ELSE IF \E a \in found : ~CanManageAccount(userId, a) THEN 403
        ELSE 200

\* the outcome of the checks addBalance, updateBalance and deleteBalance start
\* with, for the account of the snapshot
BalanceAccess(accountId, userId) ==
    IF FindAccountById(accountId, userId) = {} \/ AccountById(accountId) = {} THEN 404
    ELSE IF \E a \in AccountById(accountId) : ~CanManageAccount(userId, a) THEN 403
    ELSE 200

AccountCall(op, id, accountId, userId, status) ==
    [op |-> op, id |-> id, accountId |-> accountId, userId |-> userId, status |-> status]

AccountUnchangedRest ==
    UNCHANGED <<transactions, nextTransactionId, groupVars, budgetVars, categoryVars, dueVars>>

\* AccountService.update(id, userId, data)
AccountUpdate(id, userId, patch) ==
    /\ ledgerCall.op = "none"
    /\ LET access == AccountAccess(id, userId)
           existingAccount == CHOOSE a \in FindAccountById(id, userId) : TRUE
           status ==
               IF access # 200 THEN access
               ELSE IF patch.field = "groupId" /\ patch.value # existingAccount.groupId
                         /\ MemberOfUser(patch.value, userId) = {}
                    THEN 403
                    ELSE 200
       IN  /\ accounts' =
                 IF status # 200 THEN accounts
                 ELSE {IF a.id # id THEN a
                       ELSE IF patch.field = "type" THEN [a EXCEPT !.type = patch.value]
                       ELSE [a EXCEPT !.groupId = patch.value] : a \in accounts}
           /\ ledgerCall' = AccountCall("update", id, id, userId, status)
    /\ UNCHANGED <<balances, nextBalanceId>>
    /\ AccountUnchangedRest

\* AccountService.delete(id, userId); with snapshots on the account the storage
\* either removes them with it or refuses the delete
AccountDelete(id, userId) ==
    /\ ledgerCall.op = "none"
    /\ LET access == AccountAccess(id, userId)
           snapshots == {b \in balances : b.accountId = id}
       IN  \/ /\ access # 200
              /\ ledgerCall' = AccountCall("delete", id, id, userId, access)
              /\ UNCHANGED <<accounts, balances>>
           \/ /\ access = 200
              /\ accounts' = {a \in accounts : a.id # id}
              /\ balances' = balances \ snapshots
              /\ ledgerCall' = AccountCall("delete", id, id, userId, 204)
           \/ /\ access = 200 /\ snapshots # {}
              /\ ledgerCall' = AccountCall("delete", id, id, userId, 500)
              /\ UNCHANGED <<accounts, balances>>
    /\ UNCHANGED nextBalanceId
    /\ AccountUnchangedRest

\* AccountService.addBalance(userId, data), with the id of the row and the
\* status of the response
AddBalanceRequest(userId, data) ==
    /\ ledgerCall.op = "none"
    /\ nextBalanceId <= MaxBalances
    /\ LET status == IF BalanceAccess(data.accountId, userId) = 200 THEN 201
                     ELSE BalanceAccess(data.accountId, userId)
       IN  /\ IF status = 201
              THEN /\ balances' = balances \cup {[id |-> nextBalanceId] @@ data}
                   /\ nextBalanceId' = nextBalanceId + 1
              ELSE UNCHANGED <<balances, nextBalanceId>>
           /\ ledgerCall' = AccountCall("addBalance", Null, data.accountId, userId, status)
    /\ UNCHANGED accounts
    /\ AccountUnchangedRest

\* AccountService.updateBalance(id, userId, data)
UpdateBalance(id, userId, patch) ==
    /\ ledgerCall.op = "none"
    /\ LET existingBalance == BalanceById(id)
       IN  IF existingBalance = {}
           THEN /\ ledgerCall' = AccountCall("updateBalance", id, Null, userId, 404)
                /\ UNCHANGED balances
           ELSE LET accountId == (CHOOSE b \in existingBalance : TRUE).accountId
                    status == BalanceAccess(accountId, userId)
                IN  /\ balances' =
                          IF status # 200 THEN balances
                          ELSE {IF b.id # id THEN b
                                ELSE IF patch.field = "amount"
                                     THEN [b EXCEPT !.amount = patch.value]
                                     ELSE [b EXCEPT !.date = patch.value] : b \in balances}
                    /\ ledgerCall' = AccountCall("updateBalance", id, accountId, userId, status)
    /\ UNCHANGED <<accounts, nextBalanceId>>
    /\ AccountUnchangedRest

\* AccountService.deleteBalance(id, userId)
DeleteBalance(id, userId) ==
    /\ ledgerCall.op = "none"
    /\ LET balance == BalanceById(id)
       IN  IF balance = {}
           THEN /\ ledgerCall' = AccountCall("deleteBalance", id, Null, userId, 404)
                /\ UNCHANGED balances
           ELSE LET accountId == (CHOOSE b \in balance : TRUE).accountId
                    status == IF BalanceAccess(accountId, userId) = 200 THEN 204
                              ELSE BalanceAccess(accountId, userId)
                IN  /\ balances' = IF status # 204 THEN balances ELSE balances \ balance
                    /\ ledgerCall' = AccountCall("deleteBalance", id, accountId, userId, status)
    /\ UNCHANGED <<accounts, nextBalanceId>>
    /\ AccountUnchangedRest

\* the response has been sent
AccountReturn ==
    /\ ledgerCall.op # "none"
    /\ ledgerCall' = NoLedgerCall
    /\ UNCHANGED <<accounts, balances, nextBalanceId>>
    /\ AccountUnchangedRest

\* account 1 belongs to group 7 and was created by user 1 or user 2; user 1
\* owns the group, user 2 is a member with any of the group's roles, user 3
\* is no member
InitAccount ==
    /\ BudgetIdle
    /\ fpBoundary = FALSE
    /\ LedgerCategoryTables
    /\ DueIdle
    /\ \E roleId \in {1, 2, 3} :
          groupMembers = {OwnerMember,
                          [id |-> 2, groupId |-> 7, userId |-> 2, roleId |-> roleId]}
    /\ groupCall = NoGroupCall
    /\ \E userId \in {1, 2} : accounts = {CashAccount(1, userId, 7)}
    /\ balances = {}
    /\ transactions = EmptyBag
    /\ nextTransactionId = 1
    /\ nextBalanceId = 1
    /\ ledgerCall = NoLedgerCall

NextAccount ==
    \/ \E id \in {1}, userId \in AccountCallers, patch \in AccountPatches :
          AccountUpdate(id, userId, patch)
    \/ \E id \in {1}, userId \in AccountCallers : AccountDelete(id, userId)
    \/ \E userId \in AccountCallers, data \in SnapshotInputs : AddBalanceRequest(userId, data)
    \/ \E id \in 1..MaxBalances, userId \in AccountCallers, patch \in SnapshotPatches :
          UpdateBalance(id, userId, patch)
    \/ \E id \in 1..MaxBalances, userId \in AccountCallers : DeleteBalance(id, userId)
    \/ AccountReturn

SpecAccount == InitAccount /\ [][NextAccount]_vars

\* C16: snapshots are append-only: a snapshot row keeps its amount and its
\* date and stays in the table for as long as its account exists.
C16_SnapshotsAppendOnly ==
    [][\A b \in balances :
         (\E a \in accounts' : a.id = b.accountId) => b \in balances'
      ]_vars

\* the role row of a member
RoleOf(groupId, userId) ==
    {r \in GroupRoles : \E m \in groupMembers :
        m.groupId = groupId /\ m.userId = userId /\ m.roleId = r.id}

\* C18: a mutating call on a group-owned account by a member whose role has
\* neither canManageGroupAccounts nor (canManageOwnAccounts, the member being
\* the account's userId) ends with Forbidden, and by a user who neither is the
\* account's userId nor belongs to the group with NotFound; in both cases the
\* accounts and the snapshots are left as they were.
C18_DeniedLeavesUnchanged ==
    [][\A a \in accounts :
         (/\ ledgerCall.op = "none"
          /\ ledgerCall'.op \in {"update", "delete", "addBalance", "updateBalance", "deleteBalance"}
          /\ ledgerCall'.accountId = a.id
          /\ a.groupId # Null) =>
            LET userId == ledgerCall'.userId
                isMember == \E m \in groupMembers : m.groupId = a.groupId /\ m.userId = userId
                denied == \A r \in RoleOf(a.groupId, userId) :
                             /\ ~r.canManageGroupAccounts
                             /\ ~(r.canManageOwnAccounts /\ a.userId = userId)
            IN  /\ (isMember /\ denied) =>
                      (ledgerCall'.status = 403 /\ accounts' = accounts /\ balances' = balances)
                /\ (~isMember /\ a.userId # userId) =>
                      (ledgerCall'.status = 404 /\ accounts' = accounts /\ balances' = balances)
      ]_vars

\* C18's case: user 2, whose role lets a member manage the member's own
\* accounts only, tries to rewrite a snapshot of the group account user 1
\* created and is refused
C18_Witness ==
    /\ ledgerCall.op = "updateBalance"
    /\ ledgerCall.userId = 2
    /\ ledgerCall.status = 403
    /\ \E m \in groupMembers : m.userId = 2 /\ m.roleId = 2
    /\ \E a \in accounts : a.id = ledgerCall.accountId /\ a.groupId = 7 /\ a.userId = 1
    /\ \E b \in balances : b.id = ledgerCall.id /\ b.amount = 100

-----------------------------------------------------------------------------
(* BudgetService.getComparison *)

\* a Budget row with its category type
ComparisonBudget(id, userId, subcategoryId, type, month, amount, budgetType) ==
    [id |-> id, userId |-> userId, year |-> 2024, subcategoryId |-> subcategoryId,
     type |-> type, month |-> month, amount |-> amount, budgetType |-> budgetType]

\* the budgets the comparison is run over: any of these
ComparisonBudgets ==
    {ComparisonBudget(1, 1, 1, "ANNUAL", Null, 100, "EXPENSE"),
     ComparisonBudget(2, 1, 1, "MONTHLY", 1, 10, "EXPENSE"),
     ComparisonBudget(3, 1, 2, "MONTHLY", 2, 20, "INCOME"),
     ComparisonBudget(4, 2, 1, "ANNUAL", Null, 7, "EXPENSE")}

\* the transactions the comparison is run over: any of these (an expense in
\* January, an income on the first of February, a transfer on the last of
\* January, an expense on the first day of the next year)
ComparisonTransactions ==
    {TransactionRow(1, TransactionInput("EXPENSE", 1, 0, 1, Null, 30, Date(2024, 1, 15))),
     TransactionRow(1, TransactionInput("INCOME", 1, 0, 2, Null, 50, Date(2024, 2, 1))),
     TransactionRow(1, TransactionInput("TRANSFER", 1, 2, Null, Null, 40, Date(2024, 1, 31))),
     TransactionRow(1, TransactionInput("EXPENSE", 1, 0, 1, Null, 5, Date(2025, 1, 1)))}

ComparisonMonths == {Null, 1, 2}
ComparisonSubcategories == {Null, 1, 2}
ComparisonTypes == {"null", "EXPENSE", "INCOME"}

\* new Date(year, month ? month - 1 : 0, 1)
PeriodStart(year, month) == Date(year, IF month # Null THEN month ELSE 1, 1)

\* month ? new Date(year, month, 1) : new Date(year + 1, 0, 1)
PeriodEnd(year, month) ==
    IF month # Null /\ month < 12 THEN Date(year, month + 1, 1) ELSE Date(year + 1, 1, 1)

\* date: { gte: start, lt: end }
InPeriod(date, year, month) ==
    /\ ~DateAfter(PeriodStart(year, month), date)
    /\ DateAfter(PeriodEnd(year, month), date)

\* budget.findMany({ where: budgetWhere })
ComparisonBudgetsFound(bs, userId, year, month, subcategoryId, budgetType) ==
    {b \in bs :
        /\ b.userId = userId /\ b.year = year
        /\ b.type = (IF month # Null THEN "MONTHLY" ELSE "ANNUAL")
        /\ month # Null => b.month = month
        /\ subcategoryId # Null => b.subcategoryId = subcategoryId
        /\ budgetType # "null" => b.budgetType = budgetType}

\* transaction.findMany({ where: transactionWhere })
ComparisonTransactionsFound(txs, userId, year, month, subcategoryId, budgetType) ==
    {t \in BagToSet(txs) :
        /\ t.userId = userId
        /\ InPeriod(t.date, year, month)
        /\ subcategoryId # Null => t.subcategoryId = subcategoryId
        /\ budgetType # "null" => t.type = budgetType}

\* getComparison(userId, year, month, subcategoryId, budgetType)
getComparison(bs, txs, userId, year, month, subcategoryId, budgetType) ==
    LET budgeted ==
            SumAmounts(ComparisonBudgetsFound(bs, userId, year, month, subcategoryId, budgetType))
        actual ==
            SumOfRows(ComparisonTransactionsFound(txs, userId, year, month, subcategoryId, budgetType), txs)
    IN  [budgeted |-> budgeted, actual |-> actual, difference |-> budgeted - actual]

\* the request is answered
GetComparison(userId, year, month, subcategoryId, budgetType) ==
    /\ ledgerCall.op = "none"
    /\ ledgerCall' = [op |-> "getComparison", userId |-> userId, year |-> year,
                      month |-> month, subcategoryId |-> subcategoryId,
                      budgetType |-> budgetType,
                      result |-> getComparison(budgets, transactions, userId, year, month,
                                               subcategoryId, budgetType)]
    /\ UNCHANGED <<accounts, balances, transactions, nextTransactionId, nextBalanceId>>
    /\ UNCHANGED <<budgetVars, categoryVars, dueVars, groupVars>>

\* the response has been sent
ComparisonReturn ==
    /\ ledgerCall.op = "getComparison"
    /\ ledgerCall' = NoLedgerCall
    /\ UNCHANGED <<accounts, balances, transactions, nextTransactionId, nextBalanceId>>
    /\ UNCHANGED <<budgetVars, categoryVars, dueVars, groupVars>>

InitComparison ==
    /\ budgets \in SUBSET ComparisonBudgets
    /\ nextBudgetId = 5
    /\ opsStarted = 0
    /\ pc = [p \in Procs |-> "idle"]
    /\ req = [p \in Procs |-> NoReq]
    /\ sync = [p \in Procs |-> NoSync]
    /\ fpBoundary = FALSE
    /\ LedgerCategoryTables
    /\ DueIdle
    /\ GroupIdle
    /\ accounts = {CashAccount(1, 1, Null), CashAccount(2, 1, Null)}
    /\ balances = {}
    /\ transactions \in {SetToBag(rows) : rows \in SUBSET ComparisonTransactions}
    /\ nextTransactionId = 1
    /\ nextBalanceId = 1
    /\ ledgerCall = NoLedgerCall

NextComparison ==
    \/ \E month \in ComparisonMonths, subcategoryId \in ComparisonSubcategories, budgetType \in ComparisonTypes :
          GetComparison(1, 2024, month, subcategoryId, budgetType)
    \/ ComparisonReturn

SpecComparison == InitComparison /\ [][NextComparison]_vars

\* C19: getComparison answers budgeted = the sum of the matching ANNUAL budgets
\* when month is omitted and of the matching MONTHLY budgets of that month
\* otherwise, actual = the sum of the user's matching transactions dated in
\* [first day of the period, first day of the next period) with every TRANSFER
\* left out whatever the filters, and difference = budgeted - actual.
C19_Comparison ==
    ledgerCall.op = "getComparison" =>
        LET c == ledgerCall
            matchingBudgets ==
                {b \in budgets :
                    /\ b.userId = c.userId /\ b.year = c.year
                    /\ IF c.month = Null THEN b.type = "ANNUAL"
                       ELSE b.type = "MONTHLY" /\ b.month = c.month
                    /\ c.subcategoryId # Null => b.subcategoryId = c.subcategoryId
                    /\ c.budgetType # "null" => b.budgetType = c.budgetType}
            matchingTransactions ==
                {t \in BagToSet(transactions) :
                    /\ t.userId = c.userId
                    /\ t.type # "TRANSFER"
                    /\ InPeriod(t.date, c.year, c.month)
                    /\ c.subcategoryId # Null => t.subcategoryId = c.subcategoryId
                    /\ c.budgetType # "null" => t.type = c.budgetType}
        IN  /\ c.result.budgeted = SumAmounts(matchingBudgets)
            /\ c.result.actual = SumOfRows(matchingTransactions, transactions)
            /\ c.result.difference = c.result.budgeted - c.result.actual

-----------------------------------------------------------------------------
(* CategoryService.delete and SubcategoryService.delete *)

DeleteCallers == {1, 2}
DeleteTargets == {Null, 1, 2}

\* the transactions, budgets and accounts that reference one of the subcategories
TransactionsOf(txs, ids) == {t \in BagToSet(txs) : t.subcategoryId \in ids}
BudgetsOf(bs, ids) == {b \in bs : b.subcategoryId \in ids}
AccountsOf(as, ids) == {a \in as : a.subcategoryId \in ids}

\* transaction.deleteMany({ where: { subcategoryId: { in: ids } } })
RECURSIVE DeleteTransactionsOf(_, _)
DeleteTransactionsOf(txs, ids) ==
    IF TransactionsOf(txs, ids) = {} THEN txs
    ELSE LET t == CHOOSE t \in TransactionsOf(txs, ids) : TRUE
         IN  DeleteTransactionsOf(txs (-) SetToBag({t}), ids)

\* transaction.updateMany({ where: { subcategoryId: { in: ids } }, data: { subcategoryId } })
RECURSIVE MoveTransactionsOf(_, _, _)
MoveTransactionsOf(txs, ids, target) ==
    IF TransactionsOf(txs, ids \ {target}) = {} THEN txs
    ELSE LET t == CHOOSE t \in TransactionsOf(txs, ids \ {target}) : TRUE
         IN  MoveTransactionsOf((txs (-) SetToBag({t}))
                                   (+) SetToBag({[t EXCEPT !.subcategoryId = target]}),
                                ids, target)

\* the body of for (const budget of budgetsToMove): the budget is added to a
\* budget the target has for the month and year and deleted, or moved
MoveBudget(bs, budget, target) ==
    LET existing == {e \in bs : e.subcategoryId = target /\ e.month = budget.month
                                  /\ e.year = budget.year}
    IN  IF existing = {}
        THEN {{IF b.id = budget.id THEN [b EXCEPT !.subcategoryId = target] ELSE b : b \in bs}}
        ELSE {{b \in {IF x.id = existingBudget.id
                      THEN [x EXCEPT !.amount = existingBudget.amount + budget.amount]
                      ELSE x : x \in bs} : b.id # budget.id} : existingBudget \in existing}

\* the loop over budgetsToMove, in any order findMany may give
RECURSIVE MoveBudgets(_, _, _)
MoveBudgets(bs, budgetsToMove, target) ==
    IF budgetsToMove = {} THEN {bs}
    ELSE UNION {UNION {MoveBudgets(moved, budgetsToMove \ {budget}, target) :
                         moved \in MoveBudget(bs, budget, target)} :
                  budget \in budgetsToMove}

\* transactionCount > 0 with neither deleteTransactions nor moveToSubcategoryId
RefusedForTransactions(txs, ids, deleteTransactions, moveToSubcategoryId) ==
    /\ TransactionsOf(txs, ids) # {}
    /\ ~deleteTransactions
    /\ moveToSubcategoryId = Null

\* the handling of transactions, budgets and accounts that both deletes share,
\* up to the delete of the subcategories: the outcomes it can have
DependentsHandled(ids, userId, deleteTransactions, moveToSubcategoryId) ==
    LET unchanged == [transactions |-> transactions, budgets |-> budgets, accounts |-> accounts]
        targetFound == \E s \in subcategories : s.id = moveToSubcategoryId /\ s.userId = userId
    IN  IF RefusedForTransactions(transactions, ids, deleteTransactions, moveToSubcategoryId)
        THEN {[status |-> 400] @@ unchanged}
        ELSE IF TransactionsOf(transactions, ids) # {} /\ ~deleteTransactions /\ ~targetFound
        THEN {[status |-> 404] @@ unchanged}
        ELSE IF deleteTransactions
        THEN {[status |-> 200,
               transactions |-> DeleteTransactionsOf(transactions, ids),
               budgets |-> budgets \ BudgetsOf(budgets, ids),
               accounts |-> {IF a.subcategoryId \in ids THEN [a EXCEPT !.subcategoryId = Null]
                             ELSE a : a \in accounts}]}
        ELSE IF moveToSubcategoryId # Null
        THEN {[status |-> 200,
               transactions |-> MoveTransactionsOf(transactions, ids, moveToSubcategoryId),
               budgets |-> moved,
               accounts |-> {IF a.subcategoryId \in ids
                             THEN [a EXCEPT !.subcategoryId = moveToSubcategoryId]
                             ELSE a : a \in accounts}] :
                moved \in MoveBudgets(budgets, BudgetsOf(budgets, ids), moveToSubcategoryId)}
        ELSE {[status |-> 200] @@ unchanged}

\* subcategory.delete / deleteMany for rows that are still referenced: the
\* storage refuses, or applies the referential action of each foreign key
\* (a row whose reference is required goes, a nullable reference is nulled)
ReferentialAction(h, ids) ==
    [transactions |-> MoveTransactionsOf(h.transactions, ids, Null),
     budgets |-> h.budgets \ BudgetsOf(h.budgets, ids),
     accounts |-> {IF a.subcategoryId \in ids THEN [a EXCEPT !.subcategoryId = Null]
                   ELSE a : a \in h.accounts}]

Referenced(h, ids) ==
    \/ TransactionsOf(h.transactions, ids) # {}
    \/ BudgetsOf(h.budgets, ids) # {}
    \/ AccountsOf(h.accounts, ids) # {}

DeleteCall(op, id, userId, deleteTransactions, moveToSubcategoryId, status) ==
    [op |-> op, id |-> id, userId |-> userId, deleteTransactions |-> deleteTransactions,
     moveToSubcategoryId |-> moveToSubcategoryId, status |-> status]

DeleteUnchangedRest ==
    /\ UNCHANGED <<nextBudgetId, opsStarted, pc, req, sync, fpBoundary>>
    /\ UNCHANGED <<nextCategoryId, nextSubcategoryId, cpc, creq>>
    /\ UNCHANGED <<balances, nextTransactionId, nextBalanceId, dueVars, groupVars>>

\* the writes of a delete and its response: h is what the handling of the
\* dependents left, ids the subcategories to delete, category the category to
\* delete with them (or none)
DeleteWrites(call, h, ids, categoryIds) ==
    \/ /\ h.status # 200
       /\ ledgerCall' = [call EXCEPT !.status = h.status]
       /\ UNCHANGED <<transactions, budgets, accounts, subcategories, categories>>
    \/ /\ h.status = 200 /\ Referenced(h, ids)
       /\ ledgerCall' = [call EXCEPT !.status = 500]
       /\ transactions' = h.transactions /\ budgets' = h.budgets /\ accounts' = h.accounts
       /\ UNCHANGED <<subcategories, categories>>
    \/ /\ h.status = 200
       /\ LET r == ReferentialAction(h, ids)
          IN  transactions' = r.transactions /\ budgets' = r.budgets /\ accounts' = r.accounts
       /\ subcategories' = {s \in subcategories : s.id \notin ids}
       /\ categories' = {c \in categories : c.id \notin categoryIds}
       /\ ledgerCall' = [call EXCEPT !.status = 204]

\* SubcategoryService.delete(id, userId, deleteTransactions, moveToSubcategoryId);
\* every exception leaves as an internal error
SubcategoryDelete(id, userId, deleteTransactions, moveToSubcategoryId) ==
    /\ ledgerCall.op = "none"
    /\ LET call == DeleteCall("deleteSubcategory", id, userId, deleteTransactions,
                              moveToSubcategoryId, 0)
       IN  IF ~\E s \in subcategories : s.id = id /\ s.userId = userId
           THEN /\ ledgerCall' = [call EXCEPT !.status = 500]
                /\ UNCHANGED <<transactions, budgets, accounts, subcategories, categories>>
           ELSE \E h \in DependentsHandled({id}, userId, deleteTransactions, moveToSubcategoryId) :
                   DeleteWrites(call, [h EXCEPT !.status = IF h.status = 200 THEN 200 ELSE 500],
                                {id}, {})
    /\ DeleteUnchangedRest

\* CategoryService.delete(id, userId, deleteTransactions, moveToSubcategoryId)
CategoryDelete(id, userId, deleteTransactions, moveToSubcategoryId) ==
    /\ ledgerCall.op = "none"
    /\ LET call == DeleteCall("deleteCategory", id, userId, deleteTransactions,
                              moveToSubcategoryId, 0)
           subcategoryIds == {s.id : s \in SubcategoriesOf(subcategories, id)}
       IN  IF ~\E c \in categories : c.id = id /\ c.userId = userId
           THEN /\ ledgerCall' = [call EXCEPT !.status = 404]
                /\ UNCHANGED <<transactions, budgets, accounts, subcategories, categories>>
           ELSE IF subcategoryIds = {}
           THEN /\ categories' = {c \in categories : c.id # id}
                /\ ledgerCall' = [call EXCEPT !.status = 204]
                /\ UNCHANGED <<transactions, budgets, accounts, subcategories>>
           ELSE \E h \in DependentsHandled(subcategoryIds, userId, deleteTransactions,
                                           moveToSubcategoryId) :
                   DeleteWrites(call, [h EXCEPT !.status = IF h.status = 404 THEN 400 ELSE h.status],
                                subcategoryIds, {id})
    /\ DeleteUnchangedRest

\* the response has been sent
DeleteReturn ==
    /\ ledgerCall.op \in {"deleteSubcategory", "deleteCategory"}
    /\ ledgerCall' = NoLedgerCall
    /\ UNCHANGED <<transactions, budgets, accounts, subcategories, categories>>
    /\ DeleteUnchangedRest

\* the rows the deletes meet: two categories of user 1 with a subcategory
\* each, and any of these transactions, budgets and account links
DeleteTransactionRows ==
    {TransactionRow(1, TransactionInput("EXPENSE", 1, 0, 1, Null, 30, Date(2024, 1, 15))),
     TransactionRow(1, TransactionInput("EXPENSE", 1, 0, 2, Null, 5, Date(2024, 1, 15)))}

DeleteBudgetRows ==
    {[id |-> 1, userId |-> 1, year |-> 2024, subcategoryId |-> 1, type |-> "MONTHLY", month |-> 1, amount |-> 10],
     [id |-> 2, userId |-> 1, year |-> 2024, subcategoryId |-> 2, type |-> "MONTHLY", month |-> 1, amount |-> 20],
     [id |-> 3, userId |-> 1, year |-> 2024, subcategoryId |-> 1, type |-> "ANNUAL", month |-> Null, amount |-> 100]}

InitDelete ==
    /\ budgets \in SUBSET DeleteBudgetRows
    /\ nextBudgetId = 4
    /\ opsStarted = 0
    /\ pc = [p \in Procs |-> "idle"]
    /\ req = [p \in Procs |-> NoReq]
    /\ sync = [p \in Procs |-> NoSync]
    /\ fpBoundary = FALSE
    /\ categories = {[id |-> 1, userId |-> 1, hidden |-> FALSE],
                     [id |-> 2, userId |-> 1, hidden |-> FALSE]}
    /\ subcategories =
          {[id |-> 1, categoryId |-> 1, userId |-> 1, groupId |-> Null, hidden |-> FALSE],
           [id |-> 2, categoryId |-> 2, userId |-> 1, groupId |-> Null, hidden |-> FALSE]}
    /\ nextCategoryId = 3
    /\ nextSubcategoryId = 3
    /\ cpc = [p \in Procs |-> "idle"]
    /\ creq = [p \in Procs |-> 0]
    /\ DueIdle
    /\ GroupIdle
    /\ \E linked \in {Null, 1} :
          accounts = {[CashAccount(1, 1, Null) EXCEPT !.subcategoryId = linked]}
    /\ balances = {}
    /\ transactions \in {SetToBag(rows) : rows \in SUBSET DeleteTransactionRows}
    /\ nextTransactionId = 1
    /\ nextBalanceId = 1
    /\ ledgerCall = NoLedgerCall

NextDelete ==
    \/ \E id \in {1, 2}, userId \in DeleteCallers, deleteTransactions \in BOOLEAN, moveToSubcategoryId \in DeleteTargets :
          SubcategoryDelete(id, userId, deleteTransactions, moveToSubcategoryId)
    \/ \E id \in {1, 2}, userId \in DeleteCallers, deleteTransactions \in BOOLEAN, moveToSubcategoryId \in DeleteTargets :
          CategoryDelete(id, userId, deleteTransactions, moveToSubcategoryId)
    \/ DeleteReturn

SpecDelete == InitDelete /\ [][NextDelete]_vars

\* the subcategories a delete call is about
DeletedBy(c) ==
    IF c.op = "deleteSubcategory" THEN {c.id}
    ELSE {s.id : s \in SubcategoriesOf(subcategories, c.id)}

\* C17: a delete of a category or subcategory that has a dependent transaction,
\* budget or linked account, called with deleteTransactions = false and no
\* moveToSubcategoryId, is rejected and deletes nothing; and whenever a delete
\* has succeeded no transaction, budget or account references a subcategory
\* that is gone.
C17_DependentsNeedAChoice ==
    [][(ledgerCall.op = "none" /\ ledgerCall'.op \in {"deleteSubcategory", "deleteCategory"}) =>
         LET c == ledgerCall'
             ids == DeletedBy(c)
             owned == IF c.op = "deleteSubcategory"
                      THEN \E s \in subcategories : s.id = c.id /\ s.userId = c.userId
                      ELSE \E x \in categories : x.id = c.id /\ x.userId = c.userId
             dependents == \/ TransactionsOf(transactions, ids) # {}
                           \/ BudgetsOf(budgets, ids) # {}
                           \/ AccountsOf(accounts, ids) # {}
             gone == {s.id : s \in subcategories} \ {s.id : s \in subcategories'}
         IN  /\ (owned /\ dependents /\ ~c.deleteTransactions /\ c.moveToSubcategoryId = Null) =>
                   /\ c.status # 204
                   /\ UNCHANGED <<transactions, budgets, accounts, subcategories, categories>>
             /\ c.status = 204 =>
                   /\ TransactionsOf(transactions', gone) = {}
                   /\ BudgetsOf(budgets', gone) = {}
                   /\ AccountsOf(accounts', gone) = {}
      ]_vars

-----------------------------------------------------------------------------
(* Budget consistency across requests *)

\* the (userId, year, subcategoryId) keys of the requests
BudgetKeys == BudgetUsers \X BudgetYears \X BudgetSubcategories

\* C21: whenever no budget request is in flight (requests served one after the
\* other), every key that has an annual budget and at least one monthly budget
\* has each annual amount within 0.01 of the sum of its monthly amounts.
C21_AnnualMatchesMonthly ==
    AllIdle =>
       \A k \in BudgetKeys :
          MonthlyBudgets(budgets, k[1], k[2], k[3]) # {} =>
             \A a \in AnnualBudgets(budgets, k[1], k[2], k[3]) :
                Abs(a.amount - SumAmounts(MonthlyBudgets(budgets, k[1], k[2], k[3]))) <= 1

-----------------------------------------------------------------------------
(* getCurrentBalance: what the answer depends on *)

\* the amounts getCurrentBalance can answer for an account over a store
BalanceAmounts(txs, bs, account) ==
    {CurrentAmount(txs, account, lastBalance) : lastBalance \in LastBalances(bs, account.id)}

\* C22: the answer of getCurrentBalance depends only on the snapshot of the
\* greatest date and on the transactions dated strictly after it: creating a
\* transaction dated at or before the latest snapshot's date (the very date
\* included), or adding a snapshot dated earlier than the latest one, leaves
\* the amount as it was.
C22_OnlyLatestSnapshotCounts ==
    [][\A a \in accounts :
         /\ \A t \in BagToSet(transactions') :
               (/\ transactions' # transactions
                /\ Created(t)
                /\ \E b \in balances : b.accountId = a.id
                /\ \A b \in balances :
                      b.accountId = a.id =>
                         \E c \in balances : c.accountId = a.id /\ ~DateAfter(t.date, c.date)) =>
                  BalanceAmounts(transactions', balances', a)
                     = BalanceAmounts(transactions, balances, a)
         /\ \A b \in balances' \ balances :
               (/\ b.accountId = a.id
                /\ \E c \in balances : c.accountId = a.id /\ DateAfter(c.date, b.date)) =>
                  BalanceAmounts(transactions', balances', a)
                     = BalanceAmounts(transactions, balances, a)
      ]_vars

\* C22's case: account 1 has an earlier snapshot of 100 and a later one of 200,
\* an expense is dated on the day of the later one, and the balance read is 200
C22_Witness ==
    /\ ledgerCall.op = "getCurrentBalance"
    /\ ledgerCall.accountId = 1 /\ ledgerCall.userId = 1
    /\ ledgerCall.result.amount = 200
    /\ balances = {[accountId |-> 1, amount |-> 100, date |-> Date(2024, 1, 10)],
                   [accountId |-> 1, amount |-> 200, date |-> Date(2024, 1, 15)]}
    /\ \E t \in BagToSet(transactions) :
          t.type = "EXPENSE" /\ t.accountId = 1 /\ t.groupId = Null /\ t.date = Date(2024, 1, 15)

\* the transactions user 1 records in the ownership runs, personal and of the
\* group, on both accounts
OwnershipTransactionInputs ==
    {TransactionInput("INCOME", 1, Null, 1, Null, 50, Date(2024, 1, 20)),
     TransactionInput("TRANSFER", 1, 2, Null, Null, 40, Date(2024, 1, 20)),
     TransactionInput("TRANSFER", 1, 2, Null, 7, 40, Date(2024, 1, 20)),
     TransactionInput("INCOME", 1, Null, 3, 7, 50, Date(2024, 1, 20))}

\* a transaction user 2 records on account 1, which is not user 2's
ForeignTransactionInputs ==
    {TransactionInput("INCOME", 1, Null, Null, Null, 50, Date(2024, 1, 20))}

NextOwnership ==
    \/ \E data \in OwnershipTransactionInputs : TransactionCreate(1, data)
    \/ \E data \in ForeignTransactionInputs : TransactionCreate(2, data)
    \/ \E userId \in LedgerUsers, data \in BalanceInputs : AddBalance(userId, data)
    \/ GetCurrentBalance
    \/ LedgerReturn

SpecOwnership == InitBalance /\ [][NextOwnership]_vars

\* C23: a transaction outside the ownership scope of an account (for a
\* personal account: not the owner's userId with groupId null; for a group
\* account: not the group's groupId) does not change what getCurrentBalance
\* answers for the account, even when it references the account.
C23_OutOfScopeIgnored ==
    [][\A a \in accounts :
         \A t \in BagToSet(transactions') :
            (/\ transactions' # transactions
             /\ Created(t)
             /\ IF a.groupId = Null
                THEN ~(t.userId = a.userId /\ t.groupId = Null)
                ELSE t.groupId # a.groupId) =>
               BalanceAmounts(transactions', balances', a)
                  = BalanceAmounts(transactions, balances, a)
      ]_vars

\* C23's case: the store holds an income of user 2 and an income of the group,
\* both on user 1's personal account 1, and the balance read for it is 0
C23_Witness ==
    /\ ledgerCall.op = "getCurrentBalance"
    /\ ledgerCall.accountId = 1 /\ ledgerCall.userId = 1
    /\ ledgerCall.result.status = "ok"
    /\ ledgerCall.result.amount = 0
    /\ balances = {}
    /\ \E t \in BagToSet(transactions) : t.accountId = 1 /\ t.userId = 2 /\ t.groupId = Null
    /\ \E t \in BagToSet(transactions) : t.accountId = 1 /\ t.groupId = 7 /\ t.type = "INCOME"

-----------------------------------------------------------------------------
(* getAggregatedByYear: the load window against the attribution *)

\* the years a query can name around the dates of the calls
AttributionYears == {2023, 2024, 2025}

\* C24: the window getAggregatedByYear(Y) loads, from 1 November of Y-1 up to
\* but not including 1 January of Y+1, contains the date of every transaction
\* whose attributed month falls in year Y, for every date and every closing
\* and due day in 1..31, whether the attribution is the due-date month or the
\* transaction's own month.
C24_WindowWideEnough ==
    dueCall.called =>
        \A year \in AttributionYears :
            /\ dueCall.result.year = year => InWindow(dueCall.date, year)
            /\ dueCall.date.year = year => InWindow(dueCall.date, year)

\* C24's case: a purchase on 25 November 2023 with closing day 20 and due day
\* 10 is attributed to January 2024, and its date is inside the window of 2024
C24_Witness ==
    /\ dueCall.called
    /\ dueCall.date = [year |-> 2023, month |-> 11, day |-> 25]
    /\ dueCall.closingDay = 20 /\ dueCall.dueDay = 10
    /\ dueCall.result = [month |-> 1, year |-> 2024]
    /\ InWindow(dueCall.date, 2024)

\* the month and year the statement gives a stored non-transfer: the due-date
\* month when its source account is CREDIT, PER_PURCHASE, DUE_DATE with both
\* days set, else its own
StatedMonth(t) ==
    LET byDueDate ==
          {account \in accounts :
              /\ account.id = t.accountId
              /\ account.type = "CREDIT"
              /\ account.debitMethod = "PER_PURCHASE"
              /\ account.budgetMonthBasis = "DUE_DATE"
              /\ account.creditClosingDay # Null
              /\ account.creditDueDay # Null}
    IN  IF byDueDate # {}
        THEN LET account == CHOOSE account \in byDueDate : TRUE
             IN  calculateDueDateMonth(t.date, account.creditClosingDay, account.creditDueDay)
        ELSE [month |-> t.date.month, year |-> t.date.year]

\* the buckets of a result with the key of subcategory, month, year and type
BucketsAt(result, subcategoryId, target, type) ==
    {b \in result : /\ b.subcategoryId = subcategoryId /\ b.month = target.month
                    /\ b.year = target.year /\ b.type = type}

\* C25: in the answer of getAggregatedByYear every counted EXPENSE or INCOME
\* with a subcategory is in the bucket of the due-date month when its source
\* account is CREDIT, PER_PURCHASE, DUE_DATE with both days set, and in the
\* bucket of its own calendar month otherwise: when that month is of the
\* requested year the bucket is there, and without the transaction it is
\* missing or smaller by the transaction's amount and a count of 1.
C25_DueDateBucket ==
    ledgerCall.op = "getAggregatedByYear" =>
        \A t \in InScopeRows :
            (/\ t.type # "TRANSFER"
             /\ t.subcategoryId # Null
             /\ ~SkippedExpense(t, AccountMap(ledgerCall.userId, ledgerCall.groupId))
             /\ StatedMonth(t).year = ledgerCall.year) =>
               LET with == BucketsAt(ledgerCall.result, t.subcategoryId, StatedMonth(t), t.type)
                   without ==
                     BucketsAt(getAggregatedByYear(transactions (-) SetToBag({t}),
                                                   ledgerCall.userId, ledgerCall.year,
                                                   ledgerCall.groupId),
                               t.subcategoryId, StatedMonth(t), t.type)
               IN  /\ with # {}
                   /\ \A b \in with :
                         IF b.count = 1
                         THEN b.total = t.amount /\ without = {}
                         ELSE without = {[b EXCEPT !.total = @ - t.amount, !.count = @ - 1]}

-----------------------------------------------------------------------------
(* getAggregatedByYear over stores that differ outside the query's scope *)

\* account 1 is user 1's credit card attributed by due date, account 2 is a
\* PREPAID account of group 7
ScopeAccounts ==
    {Account(1, 1, Null, "CREDIT", 2, "PER_PURCHASE", "DUE_DATE", 20, 10),
     Account(2, 1, 7, "PREPAID", 3, "null", "null", Null, Null)}

\* personal and group transactions of user 1 on both accounts
ScopeTransactionInputs ==
    {TransactionInput("EXPENSE", 1, Null, 1, Null, 30, Date(2024, 1, 15)),
     TransactionInput("EXPENSE", 2, Null, 1, Null, 30, Date(2024, 1, 15)),
     TransactionInput("TRANSFER", 1, 2, Null, Null, 40, Date(2024, 1, 15)),
     TransactionInput("EXPENSE", 1, Null, 3, 7, 30, Date(2024, 1, 15)),
     TransactionInput("TRANSFER", 2, 1, Null, 7, 40, Date(2024, 1, 15))}

\* a transfer user 2 records between the two accounts
ScopeForeignInputs ==
    {TransactionInput("TRANSFER", 2, 1, Null, Null, 40, Date(2024, 1, 15))}

InitScope ==
    /\ BudgetIdle
    /\ fpBoundary = FALSE
    /\ LedgerCategoryTables
    /\ DueIdle
    /\ GroupIdle
    /\ accounts = ScopeAccounts
    /\ balances = {}
    /\ transactions = EmptyBag
    /\ nextTransactionId = 1
    /\ nextBalanceId = 1
    /\ ledgerCall = NoLedgerCall

NextScope ==
    \/ \E data \in ScopeTransactionInputs : TransactionCreate(1, data)
    \/ \E data \in ScopeForeignInputs : TransactionCreate(2, data)
    \/ \E id \in {1, 2}, patch \in AccountPatches : AccountUpdate(id, 1, patch)
    \/ GetAggregatedByYear
    \/ LedgerReturn

SpecScope == InitScope /\ [][NextScope]_vars

\* the row belongs to the ownership scope the query names
OfScope(row, q) ==
    IF q.groupId # Null
    THEN row.groupId = q.groupId
    ELSE row.userId = q.userId /\ row.groupId = Null

\* C26: the answer of getAggregatedByYear depends only on the transactions and
\* accounts of the query's ownership scope (the caller's personal rows without
\* groupId, the group's rows with it): a step that creates a transaction of
\* another scope, or changes only accounts that are of another scope before
\* and after, leaves the answer of the query as it was.
C26_ScopePartition ==
    [][\A q \in Queries :
         /\ \A t \in BagToSet(transactions') :
               (Created(t) /\ ~OfScope(t, q)) =>
                  Aggregated(transactions, q)' = Aggregated(transactions, q)
         /\ (/\ transactions' = transactions
             /\ accounts' # accounts
             /\ \A a \in (accounts \ accounts') \cup (accounts' \ accounts) : ~OfScope(a, q)) =>
               Aggregated(transactions, q)' = Aggregated(transactions, q)
      ]_vars

\* C26's case: a personal expense on the group's PREPAID account 2, a transfer
\* of the group into account 1 and a transfer of user 2 are stored; the
\* personal answer holds the expense alone, the group's accounts and rows and
\* user 2's row left aside
C26_Witness ==
    /\ ledgerCall.op = "getAggregatedByYear"
    /\ ledgerCall.userId = 1 /\ ledgerCall.groupId = Null
    /\ \E a \in accounts : a.id = 2 /\ a.groupId = 7 /\ a.type = "PREPAID"
    /\ \E t \in BagToSet(transactions) :
          t.type = "EXPENSE" /\ t.accountId = 2 /\ t.userId = 1 /\ t.groupId = Null
    /\ \E t \in BagToSet(transactions) : t.type = "TRANSFER" /\ t.groupId = 7
    /\ \E t \in BagToSet(transactions) : t.userId = 2
    /\ ledgerCall.result = {[subcategoryId |-> 1, month |-> 1, year |-> 2024,
                             type |-> "EXPENSE", total |-> 30, count |-> 1]}

-----------------------------------------------------------------------------
(* Categories and subcategories: the hidden flags together *)

\* C27: in every state reached by CategoryService.hide / unhide and
\* SubcategoryService.create / hide / unhide, no subcategory with hidden = false
\* belongs to a category with hidden = true.
C27_NoVisibleUnderHidden ==
    \A c \in categories, x \in subcategories :
        (x.categoryId = c.id /\ c.hidden) => x.hidden

\* C28: the step of CategoryService.unhide that writes leaves the category
\* visible and every subcategory it had visible, whatever their flags were
\* before: a subcategory hidden on its own before the category was hidden, or
\* while it was, is visible after the unhide, so hide followed by unhide does
\* not give the earlier flags back.
C28_UnhideShowsAll ==
    [][\A p \in Procs :
          (cpc[p] = "unhide_tx" /\ cpc'[p] = "unhide_read") =>
             /\ \A c \in categories' : c.id = creq[p] => ~c.hidden
             /\ \A x \in SubcategoriesOf(subcategories, creq[p]) :
                   \E y \in subcategories' : y.id = x.id /\ ~y.hidden
             /\ \A y \in SubcategoriesOf(subcategories', creq[p]) : ~y.hidden
      ]_vars

\* C28's case: an unhide has just committed on a category with two
\* subcategories, both visible now, while another request that found one of
\* them is about to hide it on its own
C28_Witness ==
    \E p \in Procs, q \in Procs :
        /\ p # q
        /\ cpc[p] = "unhide_read"
        /\ cpc[q] = "sub_hide"
        /\ \E c \in categories :
              /\ c.id = creq[p] /\ ~c.hidden
              /\ Cardinality(SubcategoriesOf(subcategories, c.id)) = 2
              /\ \A x \in SubcategoriesOf(subcategories, c.id) : ~x.hidden
              /\ \E x \in SubcategoriesOf(subcategories, c.id) : x.id = creq[q]

-----------------------------------------------------------------------------
(* The deletes as one unit *)

\* C29: CategoryService.delete and SubcategoryService.delete are all or
\* nothing: a delete that does not succeed leaves transactions, budgets,
\* accounts, subcategories and categories as they were, and a delete that is
\* to move dependents to a subcategory that is not the caller's, does not
\* exist or is itself being deleted does not succeed.
C29_AllOrNothing ==
    [][(ledgerCall.op = "none" /\ ledgerCall'.op \in {"deleteSubcategory", "deleteCategory"}) =>
         LET c == ledgerCall'
             ids == DeletedBy(c)
             owned == IF c.op = "deleteSubcategory"
                      THEN \E s \in subcategories : s.id = c.id /\ s.userId = c.userId
                      ELSE \E x \in categories : x.id = c.id /\ x.userId = c.userId
             dependents == \/ TransactionsOf(transactions, ids) # {}
                           \/ BudgetsOf(budgets, ids) # {}
                           \/ AccountsOf(accounts, ids) # {}
             targetValid ==
                 /\ \E s \in subcategories : s.id = c.moveToSubcategoryId /\ s.userId = c.userId
                 /\ c.moveToSubcategoryId \notin ids
         IN  /\ c.status # 204 =>
                   UNCHANGED <<transactions, budgets, accounts, subcategories, categories>>
             /\ (/\ owned /\ dependents /\ ~c.deleteTransactions
                 /\ c.moveToSubcategoryId # Null /\ ~targetValid) =>
                   c.status # 204
      ]_vars

-----------------------------------------------------------------------------
(* Reading a group's account while the membership changes *)

MembershipUsers == {1, 2, 3}

\* AccountService.findById(id, userId) as a call: the account, or null
FindById(id, userId) ==
    /\ ledgerCall.op = "none"
    /\ ledgerCall' = [op |-> "findById", accountId |-> id, userId |-> userId,
                      result |-> [status |-> IF FindAccountById(id, userId) = {}
                                             THEN "NotFound" ELSE "ok",
                                  rows |-> FindAccountById(id, userId)]]
    /\ UNCHANGED <<accounts, balances, transactions, nextTransactionId, nextBalanceId>>
    /\ LedgerUnchangedRest

\* AccountService.getBalanceHistory(accountId, userId): the snapshots of the
\* account, after the check findById makes
GetBalanceHistory(accountId, userId) ==
    /\ ledgerCall.op = "none"
    /\ ledgerCall' = [op |-> "getBalanceHistory", accountId |-> accountId, userId |-> userId,
                      result |-> IF FindAccountById(accountId, userId) = {}
                                 THEN [status |-> "NotFound", rows |-> {}]
                                 ELSE [status |-> "ok",
                                       rows |-> {b \in balances : b.accountId = accountId}]]
    /\ UNCHANGED <<accounts, balances, transactions, nextTransactionId, nextBalanceId>>
    /\ LedgerUnchangedRest

\* AccountService.getCurrentBalance(accountId, userId) for any of the callers
GetCurrentBalanceOf(accountId, userId) ==
    /\ ledgerCall.op = "none"
    /\ \E result \in getCurrentBalance(accountId, userId) :
          ledgerCall' = [op |-> "getCurrentBalance", accountId |-> accountId,
                         userId |-> userId, result |-> result]
    /\ UNCHANGED <<accounts, balances, transactions, nextTransactionId, nextBalanceId>>
    /\ LedgerUnchangedRest

\* account 1 belongs to group 7 and was created by user 1 or user 2; user 1
\* owns the group, user 2 is a member, user 3 is none
InitMembership ==
    /\ BudgetIdle
    /\ fpBoundary = FALSE
    /\ LedgerCategoryTables
    /\ DueIdle
    /\ \E roleId \in {1, 2, 3} :
          groupMembers = {OwnerMember, [id |-> 2, groupId |-> 7, userId |-> 2, roleId |-> roleId]}
    /\ groupCall = NoGroupCall
    /\ \E creator \in {1, 2} : accounts = {CashAccount(1, creator, 7)}
    /\ balances = {[accountId |-> 1, amount |-> 100, date |-> Date(2024, 1, 10)]}
    /\ transactions = EmptyBag
    /\ nextTransactionId = 1
    /\ nextBalanceId = 1
    /\ ledgerCall = NoLedgerCall

NextMembership ==
    \/ \E memberId \in {1, 2}, userId \in {1, 2} : RemoveMember(7, memberId, userId)
    \/ \E userId \in MembershipUsers : LeaveGroup(7, userId)
    \/ GroupReturn
    \/ \E userId \in MembershipUsers : FindById(1, userId)
    \/ \E userId \in MembershipUsers : GetBalanceHistory(1, userId)
    \/ \E userId \in MembershipUsers : GetCurrentBalanceOf(1, userId)
    \/ LedgerReturn

SpecMembership == InitMembership /\ [][NextMembership]_vars

\* C30: getCurrentBalance, getBalanceHistory and findById on an account of a
\* group succeed only for a caller who is a member of the group when the call
\* is made: any other caller gets NotFound, the user recorded as the
\* account's userId included.
C30_ReadsFollowMembership ==
    [][(/\ ledgerCall.op = "none"
        /\ ledgerCall'.op \in {"findById", "getBalanceHistory", "getCurrentBalance"}) =>
         \A a \in accounts :
            (/\ a.id = ledgerCall'.accountId
             /\ a.groupId # Null
             /\ ~\E m \in groupMembers :
                   m.groupId = a.groupId /\ m.userId = ledgerCall'.userId) =>
               ledgerCall'.result.status = "NotFound"
      ]_vars


=============================================================================
